---------------------------- MODULE Spec2Model ----------------------------
(***************************************************************************)
(* A model of the certificate report pipeline of the Telegram bot          *)
(* (src/bot.py, and the same functions in src/worker.py): the extractor    *)
(* get_certificate_info, the collector _process_file_content, the renderer *)
(* create_excel_report / generate_summary_message, the handlers that      *)
(* drive them (the certificate-analysis wizard of bot.py, the document     *)
(* handler and the settings conversation of worker.py), the                *)
(* access-management conversation, the AKC-form wizard, the entry of the   *)
(* YouTube conversation and the /start menu of bot.py.                     *)
(*                                                                         *)
(* Text is a sequence of one-character strings, so that lower() and        *)
(* endswith() are computed.  A date is a day number; a datetime is a day   *)
(* number with a time of day.  The bytes of a file are modelled by what    *)
(* the libraries that read them (cryptography.x509, zipfile) answer.       *)
(* An exception is a value: a function that can raise gives a record with  *)
(* the class of the exception that left it, "none" when it returned.       *)
(*                                                                         *)
(* A definition introduced as a "variant" is a deliberately wrong version  *)
(* of the definition that follows it; replacing the definition by its      *)
(* variant must break the properties stated about it.                      *)
(***************************************************************************)
EXTENDS Integers, Sequences, FiniteSets, TLC

VARIABLES
    today,          \* datetime.now().date()
    permissions,    \* context.bot_data['permissions']: user -> set of permissions
    user_settings,  \* table user_settings: user -> {stored threshold}, {} without a row
    user_data,      \* context.user_data of each user (bot.py)
    conv,           \* state of each user's certificate-analysis conversation
    out,            \* what the last handler of bot.py did: messages sent, exception
    user_permissions_table, \* table user_permissions: user -> {permissions text}
    access_conv,    \* state of each user's access-management conversation
    new_user,       \* new_user_id and new_user_perms of context.user_data
    akc_conv,       \* state of each user's AKC-form conversation
    youtube_conv,   \* state of each user's YouTube conversation
    w_user_data,    \* context.user_data of the user of worker.py
    w_conv,         \* state of that user's settings conversation (worker.py)
    w_out,          \* what the last handler of worker.py did
    arg,            \* argument of the pipeline function under check
    ret             \* its result

vars == <<today, permissions, user_settings, user_data, conv, out,
          user_permissions_table, access_conv, new_user, akc_conv, youtube_conv,
          w_user_data, w_conv, w_out, arg, ret>>

botVars == <<permissions, user_settings, user_data, conv, out>>
accessVars == <<user_permissions_table, access_conv, new_user>>
menuVars == <<akc_conv, youtube_conv>>
workerVars == <<w_user_data, w_conv, w_out>>
funVars == <<arg, ret>>

-----------------------------------------------------------------------------
(* Bounds of the model.                                                    *)

\* the longest record list handed to the renderer
MaxRecords == 3
\* the latest day number a certificate is valid from or until
MaxDay == 5
\* the largest threshold a user types
MaxThreshold == 2
\* the most members of an archive
MaxMembers == 2
\* the most files uploaded in one conversation
MaxFiles == 2
\* the most certificates attached to one AKC form
MaxCertificates == 2

\* the days on which the pipeline runs
Todays == {2, 3}
Days == 0..MaxDay

-----------------------------------------------------------------------------
(* Program constants.                                                      *)

ADMIN_USER_ID == 96238783
\* a user who is not the main administrator
OtherUser == ADMIN_USER_ID + 1
Users == {ADMIN_USER_ID, OtherUser}

MAX_FILE_SIZE == 20 * 1024 * 1024
EXPIRATION_THRESHOLD_DAYS == 30

RED_FILL == "FFCCCC"
ORANGE_FILL == "FFDDAA"
GREEN_FILL == "CCFFCC"

ALLOWED_EXTENSIONS ==
    << <<".", "c", "e", "r">>, <<".", "c", "r", "t">>,
       <<".", "p", "e", "m">>, <<".", "d", "e", "r">> >>

ZIP_EXTENSION == <<".", "z", "i", "p">>

\* the placeholder of a missing subject attribute ("Неизвестно")
UNKNOWN == "Unknown"

NoValue == "NoValue"

\* an optional number is a set: {} (None, or no row), or {n}
None == {}
Some(n) == {n}
TheValue(opt) == CHOOSE n \in opt : TRUE

\* F(v), with v evaluated once (call by value)
ByValue(v, F(_)) == CHOOSE r \in {F(x) : x \in {v}} : TRUE

-----------------------------------------------------------------------------
(* Text: str.lower and str.endswith.                                       *)

UpperLetters == <<"A","B","C","D","E","F","G","H","I","J","K","L","M",
                  "N","O","P","Q","R","S","T","U","V","W","X","Y","Z">>
LowerLetters == <<"a","b","c","d","e","f","g","h","i","j","k","l","m",
                  "n","o","p","q","r","s","t","u","v","w","x","y","z">>

LowerChar(c) ==
    IF \E i \in 1..26 : UpperLetters[i] = c
    THEN LowerLetters[CHOOSE i \in 1..26 : UpperLetters[i] = c]
    ELSE c

lower(s) == [i \in 1..Len(s) |-> LowerChar(s[i])]

endswith(s, suffix) ==
    /\ Len(s) >= Len(suffix)
    /\ SubSeq(s, Len(s) - Len(suffix) + 1, Len(s)) = suffix

\* str.endswith with a tuple of suffixes
endswith_any(s, suffixes) ==
    \E i \in 1..Len(suffixes) : endswith(s, suffixes[i])

HexDigits == <<"0","1","2","3","4","5","6","7","8","9","A","B","C","D","E","F">>

RECURSIVE format_X(_)
\* f"{n:X}": uppercase hexadecimal, no prefix, no padding
format_X(n) ==
    IF n < 16 THEN <<HexDigits[n + 1]>>
    ELSE Append(format_X(n \div 16), HexDigits[(n % 16) + 1])

-----------------------------------------------------------------------------
(* The extractor: get_certificate_info.                                    *)
(*                                                                         *)
(* The bytes of a file, as cryptography.x509 answers on them:              *)
(*   pem, der    what load_pem_x509_certificate / load_der_x509_certificate*)
(*               do: "ok", or the class of the exception raised            *)
(*   subject_ok  whether reading cert.subject succeeds (it is decoded when *)
(*               read, and raises ValueError on a malformed name)          *)
(*   cn, org     the values get_attributes_for_oid returns (a list)        *)
(*   serial_number, not_valid_before, not_valid_after                      *)

\* Exception and its subclasses, as far as the pipeline meets them
ExceptionClasses ==
    {"ValueError", "IndexError", "OtherError", "BadZipFile", "RuntimeError"}

\* what the two loaders answer on the same bytes
LoaderAnswers ==
    { <<"ok", "ValueError">>, <<"ValueError", "ok">>,
      <<"ValueError", "ValueError">>,
      <<"OtherError", "ok">>, <<"OtherError", "ValueError">> }

DateTimes == [day : Days, tod : {0, 1}]

\* variant: a time in the second half of the day counts as the next day
DateRounded(dt) == dt.day + dt.tod

\* datetime.date(): the time of day is dropped
date(dt) == dt.day

\* x509.load_pem_x509_certificate(cert_bytes, default_backend())
load_pem_x509_certificate(cert_bytes) ==
    [exc |-> IF cert_bytes.pem = "ok" THEN "none" ELSE cert_bytes.pem]

\* x509.load_der_x509_certificate(cert_bytes, default_backend())
load_der_x509_certificate(cert_bytes) ==
    [exc |-> IF cert_bytes.der = "ok" THEN "none" ELSE cert_bytes.der]

\* variant: DER is never tried
LoadOnlyPem(cert_bytes) ==
    [exc |-> load_pem_x509_certificate(cert_bytes).exc, calls |-> <<"pem">>]

\* variant: DER is tried after any exception of the PEM loader
LoadDerOnAnyError(cert_bytes) ==
    IF load_pem_x509_certificate(cert_bytes).exc = "none"
    THEN [exc |-> "none", calls |-> <<"pem">>]
    ELSE [exc |-> load_der_x509_certificate(cert_bytes).exc,
          calls |-> <<"pem", "der">>]

\* the inner try of get_certificate_info: PEM, and DER on ValueError
\* (calls: the loaders called, in order)
LoadCertificate(cert_bytes) ==
    LET pem == load_pem_x509_certificate(cert_bytes) IN
    IF pem.exc = "ValueError"
    THEN [exc |-> load_der_x509_certificate(cert_bytes).exc,
          calls |-> <<"pem", "der">>]
    ELSE [exc |-> pem.exc, calls |-> <<"pem">>]

\* cert.subject.get_attributes_for_oid(oid)[0].value
FirstAttribute(cert_bytes, values) ==
    IF ~cert_bytes.subject_ok THEN [exc |-> "ValueError", value |-> NoValue]
    ELSE IF Len(values) = 0 THEN [exc |-> "IndexError", value |-> NoValue]
    ELSE [exc |-> "none", value |-> values[1]]

\* variant: a missing attribute is not replaced
AttributeFailsRecord(cert_bytes, values) ==
    FirstAttribute(cert_bytes, values)

\* try: ...[0].value  except IndexError: "Неизвестно"
AttributeOrUnknown(cert_bytes, values) ==
    LET a == FirstAttribute(cert_bytes, values) IN
    IF a.exc = "IndexError" THEN [exc |-> "none", value |-> UNKNOWN] ELSE a

\* the six keys of the dict get_certificate_info returns:
\*   fio "ФИО", org "Учреждение", serial "Серийный номер",
\*   valid_from "Действителен с", valid_until "Действителен до",
\*   days_left "Осталось дней"
CertInfoKeys == {"fio", "org", "serial", "valid_from", "valid_until", "days_left"}

\* variant: the days remaining are counted from the first day the pipeline
\* ran, not from the day of the call
CertInfoStaleDate(cert_bytes, cn, org, now) ==
    [fio |-> cn,
     org |-> org,
     serial |-> format_X(cert_bytes.serial_number),
     valid_from |-> date(cert_bytes.not_valid_before),
     valid_until |-> date(cert_bytes.not_valid_after),
     days_left |-> date(cert_bytes.not_valid_after)
                       - (CHOOSE d \in Todays : \A e \in Todays : d <= e)]

\* the dict built at the end of get_certificate_info
CertInfo(cert_bytes, cn, org, now) ==
    [fio |-> cn,
     org |-> org,
     serial |-> format_X(cert_bytes.serial_number),
     valid_from |-> date(cert_bytes.not_valid_before),
     valid_until |-> date(cert_bytes.not_valid_after),
     days_left |-> date(cert_bytes.not_valid_after) - now]

\* variant: the outer handler catches ValueError only
CatchesOnlyValueError(exc) == exc = "ValueError"

\* except Exception as e: (the outer handler of get_certificate_info)
ExceptException(exc) == exc \in ExceptionClasses

\* the body of the outer try: the exception it ends with ("none": it returns),
\* the dict, and the loaders called
ExtractBody(cert_bytes, now) ==
    ByValue(<<LoadCertificate(cert_bytes),
              AttributeOrUnknown(cert_bytes, cert_bytes.cn),
              AttributeOrUnknown(cert_bytes, cert_bytes.org)>>,
            LAMBDA v :
        LET ld == v[1]
            cn == v[2]
            org == v[3]
        IN  IF ld.exc # "none"
            THEN [exc |-> ld.exc, info |-> NoValue, calls |-> ld.calls]
            ELSE IF cn.exc # "none"
            THEN [exc |-> cn.exc, info |-> NoValue, calls |-> ld.calls]
            ELSE IF org.exc # "none"
            THEN [exc |-> org.exc, info |-> NoValue, calls |-> ld.calls]
            ELSE [exc |-> "none",
                  info |-> CertInfo(cert_bytes, cn.value, org.value, now),
                  calls |-> ld.calls])

\* get_certificate_info(cert_bytes): is_none: it returned None; raised: the
\* exception that left it ("none": it returned)
get_certificate_info(cert_bytes, now) ==
    ByValue(ExtractBody(cert_bytes, now), LAMBDA b :
        IF b.exc = "none"
        THEN [is_none |-> FALSE, info |-> b.info, raised |-> "none", calls |-> b.calls]
        ELSE IF ExceptException(b.exc)
        THEN [is_none |-> TRUE, info |-> NoValue, raised |-> "none", calls |-> b.calls]
        ELSE [is_none |-> TRUE, info |-> NoValue, raised |-> b.exc, calls |-> b.calls])

-----------------------------------------------------------------------------
(* The collector: _process_file_content.                                   *)
(*                                                                         *)
(* The bytes of a file have two readings: cert, what cryptography.x509     *)
(* answers on them (above), and zip, what zipfile answers:                 *)
(*   opens    whether zipfile.ZipFile(io.BytesIO(file_bytes), 'r') succeeds*)
(*            (it raises BadZipFile otherwise)                             *)
(*   members  z.namelist() with, for each member, entry: what z.open and   *)
(*            read() do on it ("ok", or the exception raised: BadZipFile   *)
(*            on a bad CRC-32 or a bad local header, RuntimeError on an    *)
(*            encrypted member), and bytes: what read() returns            *)

\* variant: the name is not lowered
EndsWithAllowedCaseSensitive(name) == endswith_any(name, ALLOWED_EXTENSIONS)

\* member.lower().endswith(ALLOWED_EXTENSIONS)
EndsWithAllowed(name) == endswith_any(lower(name), ALLOWED_EXTENSIONS)

\* file_name.lower().endswith(".zip")
EndsWithZip(name) == endswith(lower(name), ZIP_EXTENSION)

\* variant: BadZipFile is not caught
CatchesNoZipError(exc) == FALSE

\* except zipfile.BadZipFile:
ExceptBadZipFile(exc) == exc = "BadZipFile"

\* with z.open(member) as cert_file: cert_file.read()
OpenAndRead(member) == [exc |-> IF member.entry = "ok" THEN "none" ELSE member.entry]

RECURSIVE MemberLoop(_, _, _, _, _)
\* for member in z.namelist(): ... from member i on; records: all_certs_data
\* so far; passed: the members handed to get_certificate_info so far
MemberLoop(members, i, records, passed, now) ==
    IF i > Len(members) THEN [exc |-> "none", records |-> records, passed |-> passed]
    ELSE IF ~EndsWithAllowed(members[i].name)
    THEN MemberLoop(members, i + 1, records, passed, now)
    ELSE LET rd == OpenAndRead(members[i]) IN
         IF rd.exc # "none"
         THEN [exc |-> rd.exc, records |-> records, passed |-> passed]
         ELSE ByValue(get_certificate_info(members[i].bytes, now), LAMBDA cert_info :
              IF cert_info.raised # "none"
              THEN [exc |-> cert_info.raised, records |-> records,
                    passed |-> Append(passed, i)]
              ELSE MemberLoop(members, i + 1,
                              IF cert_info.is_none THEN records
                              ELSE Append(records, cert_info.info),
                              Append(passed, i), now))

\* the body of the try of the .zip branch
ZipBody(file_bytes, now) ==
    IF ~file_bytes.zip.opens
    THEN [exc |-> "BadZipFile", records |-> <<>>, passed |-> <<>>]
    ELSE MemberLoop(file_bytes.zip.members, 1, <<>>, <<>>, now)

\* _process_file_content(file_bytes, file_name): records: the list returned;
\* raised: the exception that left it ("none": it returned); passed: the
\* archive members handed to get_certificate_info; parsed: whether the bytes
\* were read at all; branch: the branch of the if / elif taken
_process_file_content(file_bytes, file_name, now) ==
    IF EndsWithZip(file_name)
    THEN ByValue(ZipBody(file_bytes, now), LAMBDA b :
         IF b.exc = "none"
         THEN [records |-> b.records, raised |-> "none", passed |-> b.passed,
               parsed |-> TRUE, branch |-> "zip"]
         ELSE IF ExceptBadZipFile(b.exc)
         THEN [records |-> <<>>, raised |-> "none", passed |-> b.passed,
               parsed |-> TRUE, branch |-> "zip"]
         ELSE [records |-> <<>>, raised |-> b.exc, passed |-> b.passed,
               parsed |-> TRUE, branch |-> "zip"])
    ELSE IF EndsWithAllowed(file_name)
    THEN ByValue(get_certificate_info(file_bytes.cert, now), LAMBDA cert_info :
         [records |-> IF cert_info.is_none THEN <<>> ELSE <<cert_info.info>>,
          raised |-> cert_info.raised, passed |-> <<>>, parsed |-> TRUE,
          branch |-> "certificate"])
    ELSE [records |-> <<>>, raised |-> "none", passed |-> <<>>, parsed |-> FALSE,
          branch |-> "none"]

-----------------------------------------------------------------------------
(* Dates as text: strftime("%d.%m.%Y").  Day number 0 is EpochDate.        *)

EpochDate == [y |-> 2024, m |-> 2, d |-> 27]

IsLeap(y) == (y % 4 = 0 /\ y % 100 # 0) \/ y % 400 = 0

DaysInMonth(y, m) ==
    IF m = 2 THEN (IF IsLeap(y) THEN 29 ELSE 28)
    ELSE IF m \in {4, 6, 9, 11} THEN 30 ELSE 31

NextDate(dt) ==
    IF dt.d < DaysInMonth(dt.y, dt.m) THEN [dt EXCEPT !.d = dt.d + 1]
    ELSE IF dt.m < 12 THEN [y |-> dt.y, m |-> dt.m + 1, d |-> 1]
    ELSE [y |-> dt.y + 1, m |-> 1, d |-> 1]

RECURSIVE CalendarDate(_)
\* the calendar date of a day number
CalendarDate(n) == IF n = 0 THEN EpochDate ELSE NextDate(CalendarDate(n - 1))

Digit(n) == HexDigits[n + 1]

\* %d and %m: two digits, zero padded
TwoDigits(n) == <<Digit(n \div 10), Digit(n % 10)>>

\* %Y: four digits
FourDigits(n) == <<Digit(n \div 1000), Digit((n \div 100) % 10),
                   Digit((n \div 10) % 10), Digit(n % 10)>>

\* variant: the month is written before the day ("%m.%d.%Y")
StrftimeMonthFirst(n) ==
    LET dt == CalendarDate(n) IN
    TwoDigits(dt.m) \o <<".">> \o TwoDigits(dt.d) \o <<".">> \o FourDigits(dt.y)

\* date.strftime("%d.%m.%Y")
strftime(n) ==
    LET dt == CalendarDate(n) IN
    TwoDigits(dt.d) \o <<".">> \o TwoDigits(dt.m) \o <<".">> \o FourDigits(dt.y)

-----------------------------------------------------------------------------
(* The renderer: create_excel_report and generate_summary_message.         *)

RECURSIVE InsertSorted(_, _)
\* variant: x is put before the elements with an equal key
InsertBeforeEqual(sorted_list, x) ==
    IF sorted_list = <<>> THEN <<x>>
    ELSE IF x.valid_until <= Head(sorted_list).valid_until
    THEN <<x>> \o sorted_list
    ELSE <<Head(sorted_list)>> \o InsertSorted(Tail(sorted_list), x)

\* x put into the sorted list after every element whose key is not greater
InsertSorted(sorted_list, x) ==
    IF sorted_list = <<>> THEN <<x>>
    ELSE IF x.valid_until < Head(sorted_list).valid_until
    THEN <<x>> \o sorted_list
    ELSE <<Head(sorted_list)>> \o InsertSorted(Tail(sorted_list), x)

RECURSIVE SortFrom(_, _, _)
\* the elements of cert_data_list from i on, inserted one by one into acc
SortFrom(cert_data_list, i, acc) ==
    IF i > Len(cert_data_list) THEN acc
    ELSE ByValue(InsertSorted(acc, cert_data_list[i]),
                 LAMBDA a : SortFrom(cert_data_list, i + 1, a))

\* variant: the latest expiry first
SortedDescending(cert_data_list) ==
    LET a == SortFrom(cert_data_list, 1, <<>>) IN
    [i \in 1..Len(a) |-> a[Len(a) + 1 - i]]

\* sorted(cert_data_list, key=lambda x: x["Действителен до"]): a stable sort
sorted_by_valid_until(cert_data_list) == SortFrom(cert_data_list, 1, <<>>)

\* variant: the list is sorted in place (cert_data_list.sort(key=...))
ListAfterSortInPlace(cert_data_list) == sorted_by_valid_until(cert_data_list)

\* the caller's list after sorted(cert_data_list, ...): sorted() builds a new
\* list and leaves its argument as it was
ListAfterSorted(cert_data_list) == cert_data_list

\* variant: a certificate with days_left = user_threshold is not orange
FillExclusiveUpper(days_left, user_threshold) ==
    IF days_left < 0 THEN RED_FILL
    ELSE IF 0 <= days_left /\ days_left < user_threshold THEN ORANGE_FILL
    ELSE GREEN_FILL

\* variant: a certificate with days_left = 0 is red
FillExclusiveLower(days_left, user_threshold) ==
    IF days_left <= 0 THEN RED_FILL
    ELSE IF 0 <= days_left /\ days_left <= user_threshold THEN ORANGE_FILL
    ELSE GREEN_FILL

\* the fill of a row: if days_left < 0 / elif 0 <= days_left <= user_threshold / else
Fill(days_left, user_threshold) ==
    IF days_left < 0 THEN RED_FILL
    ELSE IF 0 <= days_left /\ days_left <= user_threshold THEN ORANGE_FILL
    ELSE GREEN_FILL

\* one row of the sheet: the six cells, the fill of its cells, and the dict
\* it was built from
ReportRow(cert_data, user_threshold) ==
    [cells |-> <<cert_data.fio, cert_data.org, cert_data.serial,
                 strftime(cert_data.valid_from), strftime(cert_data.valid_until),
                 cert_data.days_left>>,
     fill |-> Fill(cert_data.days_left, user_threshold),
     cert |-> cert_data]

\* create_excel_report(cert_data_list, user_threshold): the data rows of the
\* sheet, below the header row (the column widths are not modelled)
create_excel_report(cert_data_list, user_threshold) ==
    ByValue(sorted_by_valid_until(cert_data_list),
            LAMBDA sorted_cert_data :
                [i \in 1..Len(sorted_cert_data) |->
                    ReportRow(sorted_cert_data[i], user_threshold)])

\* variant: expired certificates are listed too
ExpiringOrExpired(days_left, user_threshold) == days_left <= user_threshold

\* if 0 <= days_left <= user_threshold: (generate_summary_message)
ExpiringSoon(days_left, user_threshold) ==
    0 <= days_left /\ days_left <= user_threshold

\* one line of the summary: name, expiry date, days remaining
SummaryLine(cert_data) ==
    [kind |-> "cert", fio |-> cert_data.fio,
     valid_until |-> strftime(cert_data.valid_until),
     days_left |-> cert_data.days_left]

RECURSIVE ExpiringLines(_, _, _)
\* the loop of generate_summary_message: expiring_soon_certs
ExpiringLines(cert_data_list, i, user_threshold) ==
    IF i > Len(cert_data_list) THEN <<>>
    ELSE (IF ExpiringSoon(cert_data_list[i].days_left, user_threshold)
          THEN <<SummaryLine(cert_data_list[i])>> ELSE <<>>)
         \o ExpiringLines(cert_data_list, i + 1, user_threshold)

AllClearLine == [kind |-> "all_clear"]

HeaderLine(user_threshold) == [kind |-> "header", threshold |-> user_threshold]

\* variant: no heading line before the lines of the certificates
SummaryWithoutHeading(cert_data_list, user_threshold) ==
    LET expiring_soon_certs == ExpiringLines(cert_data_list, 1, user_threshold) IN
    IF expiring_soon_certs # <<>>
    THEN expiring_soon_certs
    ELSE <<AllClearLine>>

\* variant: the all-clear sentence for the empty list only
SummaryAllClearWhenEmpty(cert_data_list, user_threshold) ==
    LET expiring_soon_certs == ExpiringLines(cert_data_list, 1, user_threshold) IN
    IF cert_data_list # <<>>
    THEN <<HeaderLine(user_threshold)>> \o expiring_soon_certs
    ELSE <<AllClearLine>>

\* generate_summary_message(cert_data_list, user_threshold): the lines of the
\* message, which the code joins with "\n"
generate_summary_message(cert_data_list, user_threshold) ==
    LET expiring_soon_certs == ExpiringLines(cert_data_list, 1, user_threshold) IN
    IF expiring_soon_certs # <<>>
    THEN <<HeaderLine(user_threshold)>> \o expiring_soon_certs
    ELSE <<AllClearLine>>

-----------------------------------------------------------------------------
(* The inputs the pipeline is run on.                                      *)

\* the readings of bytes that are no archive, and of bytes that are no
\* certificate
NotZip == [opens |-> FALSE, members |-> <<>>]

NotCert == [pem |-> "ValueError", der |-> "ValueError", subject_ok |-> TRUE,
            cn |-> <<>>, org |-> <<>>, serial_number |-> 0,
            not_valid_before |-> [day |-> 0, tod |-> 0],
            not_valid_after |-> [day |-> 0, tod |-> 0]]

\* every reading of certificate bytes within the bounds
CertReadings ==
    { [pem |-> la[1], der |-> la[2], subject_ok |-> sok, cn |-> cn, org |-> org,
       serial_number |-> sn, not_valid_before |-> nb, not_valid_after |-> na] :
      la \in LoaderAnswers, sok \in BOOLEAN,
      cn \in {<<>>, <<"Ivanov">>, <<"Ivanov", "Petrov">>},
      org \in {<<>>, <<"OrgX">>},
      sn \in {10, 255},
      nb \in {[day |-> 0, tod |-> 0], [day |-> 1, tod |-> 1]},
      na \in DateTimes }

\* a PEM certificate and a DER certificate without organization
PemCert(until) ==
    [pem |-> "ok", der |-> "ValueError", subject_ok |-> TRUE,
     cn |-> <<"Ivanov">>, org |-> <<"OrgX">>, serial_number |-> 255,
     not_valid_before |-> [day |-> 0, tod |-> 0],
     not_valid_after |-> [day |-> until, tod |-> 1]]

DerCert(until) ==
    [pem |-> "ValueError", der |-> "ok", subject_ok |-> TRUE,
     cn |-> <<"Petrov">>, org |-> <<>>, serial_number |-> 10,
     not_valid_before |-> [day |-> 1, tod |-> 1],
     not_valid_after |-> [day |-> until, tod |-> 0]]

\* a certificate whose subject cannot be read
BadSubjectCert == [PemCert(MaxDay) EXCEPT !.subject_ok = FALSE]

\* names of archive members and of uploaded files
NameACer == <<"a", ".", "c", "e", "r">>
NameBCrt == <<"B", ".", "C", "R", "T">>
NameCPem == <<"c", ".", "P", "e", "m">>
NameDDer == <<"d", ".", "D", "E", "R">>
NameTxt  == <<"n", ".", "t", "x", "t">>
NameCer  == <<"c", "e", "r">>
NameXZip == <<"x", ".", "z", "i", "p">>
NameYZip == <<"Y", ".", "Z", "I", "P">>

CertNames == {NameACer, NameBCrt, NameCPem, NameDDer}
OtherNames == {NameTxt, NameCer}

\* what z.open / read() do on a member
EntryAnswers == {"ok", "BadZipFile", "RuntimeError"}

\* the members archives are made of: every name with a good entry, and two
\* names with every entry answer and several contents
MemberPool ==
    [name : CertNames \cup OtherNames, entry : {"ok"}, bytes : {PemCert(MaxDay)}]
    \cup [name : {NameACer, NameTxt}, entry : EntryAnswers,
          bytes : {DerCert(1), NotCert, BadSubjectCert}]

RECURSIVE SeqsUpTo(_, _)
\* the sequences over S of length at most n
SeqsUpTo(S, n) ==
    IF n = 0 THEN {<<>>}
    ELSE LET shorter == SeqsUpTo(S, n - 1) IN
         shorter \cup {Append(q, x) : q \in {r \in shorter : Len(r) = n - 1}, x \in S}

\* the archives ZipFile opens, and the bytes it rejects
Archives ==
    {[opens |-> TRUE, members |-> ms] : ms \in SeqsUpTo(MemberPool, MaxMembers)}
    \cup {NotZip}

\* the dicts handed to the renderer on day now
CertDicts(now) ==
    { [fio |-> f, org |-> "OrgX", serial |-> <<"F", "F">>, valid_from |-> 0,
       valid_until |-> u, days_left |-> u - now] :
      f \in {"Ivanov", "Petrov"}, u \in Days }

-----------------------------------------------------------------------------
(* The state of the two programs before any update is handled.             *)

\* what a handler did: the messages it sent, the exception that left it
\* ("none": it returned) and, when it ran the pipeline, the files it ran it
\* on, the number of files _process_file_content returned for,
\* all_certs_data when the loop over the files ended or was left, and the
\* threshold it was called with
NoOut == [user |-> 0, handler |-> NoValue, sent |-> <<>>, raised |-> "none",
          pipeline_ran |-> FALSE, batch |-> <<>>, processed |-> 0,
          collected |-> <<>>, threshold |-> None]

EmptyUserData == [has_cert_analysis_data |-> FALSE, files |-> <<>>,
                  threshold |-> None, has_akc_form |-> FALSE,
                  certificates |-> <<>>, cert_index |-> None,
                  akc_saved_logins |-> None]

BotStart ==
    /\ permissions = [u \in {ADMIN_USER_ID} |-> {"admin"}]
    /\ user_settings = [u \in Users |-> None]
    /\ user_data = [u \in Users |-> EmptyUserData]
    /\ conv = [u \in Users |-> "END"]
    /\ out = NoOut

\* the permission keys of the model, of the four of AVAILABLE_PERMISSIONS
\* (akc_form and youtube are toggled and stored as cert_analysis is)
AVAILABLE_PERMISSIONS == {"cert_analysis", "admin"}

\* sorted(list(permissions)) joined with ",": the keys in alphabetical order
PermsStr(perms) ==
    SelectSeq(<<"admin", "cert_analysis">>, LAMBDA k : k \in perms)

\* set(perms_str.split(','))
SplitPerms(perms_str) == {perms_str[i] : i \in 1..Len(perms_str)}

NoNewUser == [id |-> None, perms |-> {}, has_new_user |-> FALSE]

\* after init_database: the row of the main administrator
AccessStart ==
    /\ user_permissions_table =
           [u \in Users |-> IF u = ADMIN_USER_ID THEN {PermsStr({"admin"})} ELSE {}]
    /\ access_conv = [u \in Users |-> "END"]
    /\ new_user = [u \in Users |-> NoNewUser]

MenuStart ==
    /\ akc_conv = [u \in Users |-> "END"]
    /\ youtube_conv = [u \in Users |-> "END"]

WorkerStart ==
    /\ w_user_data = [threshold |-> None]
    /\ w_conv = "END"
    /\ w_out = NoOut

NoCall == [fn |-> NoValue]

FunIdle ==
    /\ arg = NoCall
    /\ ret = NoCall

-----------------------------------------------------------------------------
(* bot.py: permissions, the stored threshold, and the certificate-analysis  *)
(* wizard.  The handlers of one Application run one at a time.  A handler   *)
(* that raises leaves the conversation in the state it was in.              *)

\* variant: 'admin' grants nothing but administration
HasFeatureItself(user_id, feature) ==
    user_id \in DOMAIN permissions /\ feature \in permissions[user_id]

\* has_permission(user_id, feature, context)
has_permission(user_id, feature) ==
    LET user_permissions == IF user_id \in DOMAIN permissions
                            THEN permissions[user_id] ELSE {}
    IN  IF "admin" \in user_permissions THEN TRUE
        ELSE feature \in user_permissions

\* what the database does during one call: get_db_connection() returns a
\* connection and the statement runs ("ok"), get_db_connection() returns
\* None ("no_connection"), or the statement raises ("error")
DbAnswers == {"ok", "no_connection", "error"}

\* load_user_threshold(user_id)
load_user_threshold(user_id, db) ==
    IF db = "no_connection" THEN [exc |-> "none", value |-> None]
    ELSE IF db = "error" THEN [exc |-> "OtherError", value |-> None]
    ELSE [exc |-> "none", value |-> user_settings[user_id]]

\* get_user_threshold(user_id, context): the threshold returned and the
\* cached threshold afterwards
get_user_threshold(user_id, cached, db) ==
    IF cached # None
    THEN [exc |-> "none", value |-> TheValue(cached), cached |-> cached]
    ELSE LET threshold_from_db == load_user_threshold(user_id, db) IN
         IF threshold_from_db.exc # "none"
         THEN [exc |-> threshold_from_db.exc, value |-> 0, cached |-> cached]
         ELSE IF threshold_from_db.value # None
         THEN [exc |-> "none", value |-> TheValue(threshold_from_db.value),
               cached |-> threshold_from_db.value]
         ELSE [exc |-> "none", value |-> EXPIRATION_THRESHOLD_DAYS, cached |-> cached]

\* save_user_threshold(user_id, threshold): the table afterwards
save_user_threshold(user_id, threshold, db) ==
    IF db = "no_connection" THEN [exc |-> "none", table |-> user_settings]
    ELSE IF db = "error" THEN [exc |-> "OtherError", table |-> user_settings]
    ELSE [exc |-> "none", table |-> [user_settings EXCEPT ![user_id] = Some(threshold)]]

\* variant: zero is accepted
Negative(new_threshold) == new_threshold < 0

\* if new_threshold <= 0:
NotPositive(new_threshold) == new_threshold <= 0

IsDigit(c) == c \in {"0", "1", "2", "3", "4", "5", "6", "7", "8", "9"}

DigitValue(c) == CHOOSE n \in 0..9 : HexDigits[n + 1] = c

RECURSIVE Strip(_)
\* str.strip() of blanks
Strip(s) ==
    IF s # <<>> /\ Head(s) = " " THEN Strip(Tail(s))
    ELSE IF s # <<>> /\ s[Len(s)] = " " THEN Strip(SubSeq(s, 1, Len(s) - 1))
    ELSE s

RECURSIVE DigitsValue(_)
DigitsValue(s) ==
    IF s = <<>> THEN 0
    ELSE 10 * DigitsValue(SubSeq(s, 1, Len(s) - 1)) + DigitValue(s[Len(s)])

\* int(text): blanks around, an optional sign, decimal digits
int(text) ==
    LET t == Strip(text)
        signed == t # <<>> /\ Head(t) \in {"-", "+"}
        digits == IF signed THEN Tail(t) ELSE t
    IN  IF digits = <<>> \/ \E i \in 1..Len(digits) : ~IsDigit(digits[i])
        THEN [exc |-> "ValueError", value |-> 0]
        ELSE [exc |-> "none",
              value |-> IF signed /\ Head(t) = "-" THEN 0 - DigitsValue(digits)
                        ELSE DigitsValue(digits)]

RECURSIVE FileLoopPrepend(_, _, _, _)
\* variant: the records of a file are put before those collected so far
FileLoopPrepend(files, i, all_certs_data, now) ==
    IF i > Len(files)
    THEN [exc |-> "none", all_certs_data |-> all_certs_data, processed |-> i - 1]
    ELSE ByValue(_process_file_content(files[i].bytes, files[i].name, now),
                 LAMBDA processed_data :
             IF processed_data.raised # "none"
             THEN [exc |-> processed_data.raised, all_certs_data |-> all_certs_data,
                   processed |-> i - 1]
             ELSE FileLoopPrepend(files, i + 1,
                                  processed_data.records \o all_certs_data, now))

RECURSIVE FileLoop(_, _, _, _)
\* for file_info in ...['files']: all_certs_data.extend(_process_file_content(...))
\* from file i on
FileLoop(files, i, all_certs_data, now) ==
    IF i > Len(files)
    THEN [exc |-> "none", all_certs_data |-> all_certs_data, processed |-> i - 1]
    ELSE ByValue(_process_file_content(files[i].bytes, files[i].name, now),
                 LAMBDA processed_data :
             IF processed_data.raised # "none"
             THEN [exc |-> processed_data.raised, all_certs_data |-> all_certs_data,
                   processed |-> i - 1]
             ELSE FileLoop(files, i + 1, all_certs_data \o processed_data.records, now))

TextMessage(t) == [kind |-> "text", text |-> t]

\* variant: the report is built and sent for an empty list too
ReportAlways(all_certs_data, threshold) ==
    << [kind |-> "summary",
        lines |-> generate_summary_message(all_certs_data, threshold)],
       [kind |-> "document",
        rows |-> create_excel_report(all_certs_data, threshold)] >>

\* if not all_certs_data: reply_text(...) else: the summary as a text and the
\* spreadsheet as a document
ReportMessages(all_certs_data, threshold) ==
    IF all_certs_data = <<>>
    THEN <<TextMessage("nothing found")>>
    ELSE << [kind |-> "summary",
             lines |-> generate_summary_message(all_certs_data, threshold)],
            [kind |-> "document",
             rows |-> create_excel_report(all_certs_data, threshold)] >>

\* process_with_threshold(update, context, threshold), as far as the pop of
\* cert_analysis_data: the messages sent, the exception that leaves it
process_with_threshold(data, threshold, now) ==
    IF ~data.has_cert_analysis_data
    THEN [raised |-> "KeyError", sent |-> <<TextMessage("analyzing")>>,
          pipeline_ran |-> FALSE, batch |-> <<>>, processed |-> 0, collected |-> <<>>,
          threshold |-> Some(threshold)]
    ELSE ByValue(FileLoop(data.files, 1, <<>>, now), LAMBDA loop :
         [raised |-> loop.exc,
          sent |-> <<TextMessage("analyzing")>> \o
                   (IF loop.exc # "none" THEN <<>>
                    ELSE ReportMessages(loop.all_certs_data, threshold)),
          pipeline_ran |-> TRUE, batch |-> data.files,
          processed |-> loop.processed, collected |-> loop.all_certs_data,
          threshold |-> Some(threshold)])

\* variant: the file list outlives the analysis
PopKeepsFiles(data) ==
    [data EXCEPT !.has_cert_analysis_data = FALSE]

\* context.user_data.pop('cert_analysis_data', None)
PopCertAnalysisData(data) ==
    [data EXCEPT !.has_cert_analysis_data = FALSE, !.files = <<>>]

\* the report of a handler that only sends messages
Sends(u, handler, msgs) ==
    [NoOut EXCEPT !.user = u, !.handler = handler, !.sent = msgs]

Raises(u, handler, msgs, exc) ==
    [NoOut EXCEPT !.user = u, !.handler = handler, !.sent = msgs, !.raised = exc]

\* the report of a handler that ends in process_with_threshold; before: the
\* messages it sent before
Processed(u, handler, before, p) ==
    [user |-> u, handler |-> handler, sent |-> before \o p.sent, raised |-> p.raised,
     pipeline_ran |-> p.pipeline_ran, batch |-> p.batch, processed |-> p.processed,
     collected |-> p.collected, threshold |-> p.threshold]

\* the files users upload
SampleArchive == [opens |-> TRUE, members |->
    << [name |-> NameACer, entry |-> "ok", bytes |-> PemCert(MaxDay)],
       [name |-> NameTxt, entry |-> "ok", bytes |-> PemCert(MaxDay)],
       [name |-> NameDDer, entry |-> "ok", bytes |-> DerCert(3)] >>]

EncryptedMemberArchive == [opens |-> TRUE, members |->
    << [name |-> NameACer, entry |-> "ok", bytes |-> PemCert(MaxDay)],
       [name |-> NameBCrt, entry |-> "RuntimeError", bytes |-> NotCert] >>]

DamagedMemberArchive == [opens |-> TRUE, members |->
    << [name |-> NameACer, entry |-> "ok", bytes |-> PemCert(MaxDay)],
       [name |-> NameBCrt, entry |-> "BadZipFile", bytes |-> NotCert],
       [name |-> NameCPem, entry |-> "ok", bytes |-> PemCert(3)] >>]

\* document.file_size of the uploads: a small file, a file of exactly the
\* maximum, a file of one byte more
SmallSize == 1024

UploadedFiles ==
    { [name |-> NameACer, size |-> SmallSize,
       bytes |-> [cert |-> PemCert(MaxDay), zip |-> NotZip]],
      [name |-> NameBCrt, size |-> SmallSize,
       bytes |-> [cert |-> DerCert(1), zip |-> NotZip]],
      [name |-> NameCPem, size |-> MAX_FILE_SIZE,
       bytes |-> [cert |-> PemCert(3), zip |-> NotZip]],
      [name |-> NameDDer, size |-> SmallSize,
       bytes |-> [cert |-> NotCert, zip |-> NotZip]],
      [name |-> NameTxt, size |-> SmallSize,
       bytes |-> [cert |-> PemCert(3), zip |-> NotZip]],
      [name |-> NameXZip, size |-> SmallSize,
       bytes |-> [cert |-> NotCert, zip |-> NotZip]],
      [name |-> NameYZip, size |-> SmallSize,
       bytes |-> [cert |-> NotCert, zip |-> SampleArchive]],
      [name |-> NameXZip, size |-> SmallSize,
       bytes |-> [cert |-> NotCert, zip |-> EncryptedMemberArchive]],
      [name |-> NameYZip, size |-> SmallSize,
       bytes |-> [cert |-> NotCert, zip |-> DamagedMemberArchive]],
      [name |-> NameACer, size |-> MAX_FILE_SIZE + 1,
       bytes |-> [cert |-> PemCert(MaxDay), zip |-> NotZip]] }

\* the texts users type as a threshold
ThresholdTexts ==
    {<<Digit(n)>> : n \in 0..MaxThreshold}
    \cup { <<"a", "b">>, <<"-", "1">>, <<" ", "2", " ">>, <<"+", "1">> }

-----------------------------------------------------------------------------
(* The handlers of the certificate-analysis conversation of bot.py.         *)

\* cert_analysis_start: entry point (/cert, or the menu button)
cert_analysis_start(u) ==
    /\ conv[u] = "END"
    /\ IF ~has_permission(u, "cert_analysis")
       THEN /\ out' = Sends(u, "cert_analysis_start", <<>>)
            /\ UNCHANGED <<user_data, conv>>
       ELSE /\ user_data' = [user_data EXCEPT ![u].has_cert_analysis_data = TRUE,
                                              ![u].files = <<>>]
            /\ conv' = [conv EXCEPT ![u] = "CERT_AWAIT_FILES"]
            /\ out' = Sends(u, "cert_analysis_start", <<TextMessage("send files")>>)
    /\ UNCHANGED <<today, permissions, user_settings, workerVars, accessVars, menuVars, funVars>>

\* context.bot.get_file: the handler compares nothing with MAX_FILE_SIZE, so
\* whether a file above it is handed out is the answer of the Bot API
\* server (the public server refuses with BadRequest, a local one serves it)
GetFileAnswers(file) ==
    IF file.size > MAX_FILE_SIZE THEN {"ok", "BadRequest"} ELSE {"ok"}

\* handle_cert_upload: any document, in CERT_AWAIT_FILES
handle_cert_upload(u, file, get_file) ==
    /\ conv[u] = "CERT_AWAIT_FILES"
    /\ Len(user_data[u].files) < MaxFiles
    /\ IF get_file # "ok"
       THEN /\ out' = Raises(u, "handle_cert_upload", <<>>, get_file)
            /\ UNCHANGED user_data
       ELSE IF ~user_data[u].has_cert_analysis_data
       THEN /\ out' = Raises(u, "handle_cert_upload", <<>>, "KeyError")
            /\ UNCHANGED user_data
       ELSE /\ user_data' = [user_data EXCEPT
                                ![u].files = Append(user_data[u].files, file)]
            /\ out' = Sends(u, "handle_cert_upload", <<TextMessage("file added")>>)
    /\ UNCHANGED <<today, permissions, user_settings, conv, workerVars, accessVars, menuVars, funVars>>

\* ask_for_threshold_confirmation: the text 'Готово', in CERT_AWAIT_FILES
ask_for_threshold_confirmation(u, db) ==
    /\ conv[u] = "CERT_AWAIT_FILES"
    /\ IF ~user_data[u].has_cert_analysis_data
       THEN /\ out' = Raises(u, "ask_for_threshold_confirmation", <<>>, "KeyError")
            /\ UNCHANGED <<user_data, conv>>
       ELSE IF user_data[u].files = <<>>
       THEN /\ out' = Sends(u, "ask_for_threshold_confirmation",
                            <<TextMessage("no files, cancelled")>>)
            /\ user_data' = [user_data EXCEPT ![u] = PopCertAnalysisData(user_data[u])]
            /\ conv' = [conv EXCEPT ![u] = "END"]
       ELSE \E t \in {get_user_threshold(u, user_data[u].threshold, db)} :
            IF t.exc # "none"
            THEN /\ out' = Raises(u, "ask_for_threshold_confirmation", <<>>, t.exc)
                 /\ UNCHANGED <<user_data, conv>>
            ELSE /\ user_data' = [user_data EXCEPT ![u].threshold = t.cached]
                 /\ conv' = [conv EXCEPT ![u] = "CERT_AWAIT_THRESHOLD"]
                 /\ out' = Sends(u, "ask_for_threshold_confirmation",
                                 <<[kind |-> "choose threshold", current |-> t.value]>>)
    /\ UNCHANGED <<today, permissions, user_settings, workerVars, accessVars, menuVars, funVars>>

\* prompt_for_new_threshold: the button cert_enter_new, in CERT_AWAIT_THRESHOLD
prompt_for_new_threshold(u) ==
    /\ conv[u] = "CERT_AWAIT_THRESHOLD"
    /\ conv' = [conv EXCEPT ![u] = "CERT_TYPING_THRESHOLD"]
    /\ out' = Sends(u, "prompt_for_new_threshold", <<TextMessage("type the days")>>)
    /\ UNCHANGED <<today, permissions, user_settings, user_data, workerVars, accessVars, menuVars, funVars>>

\* process_with_current_threshold: the button cert_use_current, in
\* CERT_AWAIT_THRESHOLD
process_with_current_threshold(u, db) ==
    /\ conv[u] = "CERT_AWAIT_THRESHOLD"
    /\ \E t \in {get_user_threshold(u, user_data[u].threshold, db)} :
       IF t.exc # "none"
       THEN /\ out' = Raises(u, "process_with_current_threshold", <<>>, t.exc)
            /\ UNCHANGED <<user_data, conv>>
       ELSE \E data \in {[user_data[u] EXCEPT !.threshold = t.cached]} :
            \E p \in {process_with_threshold(data, t.value, today)} :
                /\ out' = Processed(u, "process_with_current_threshold", <<>>, p)
                /\ IF p.raised # "none"
                   THEN /\ user_data' = [user_data EXCEPT ![u] = data]
                        /\ UNCHANGED conv
                   ELSE /\ user_data' = [user_data EXCEPT
                                            ![u] = PopCertAnalysisData(data)]
                        /\ conv' = [conv EXCEPT ![u] = "END"]
    /\ UNCHANGED <<today, permissions, user_settings, workerVars, accessVars, menuVars, funVars>>

\* set_new_threshold_and_process: a text, in CERT_TYPING_THRESHOLD
set_new_threshold_and_process(u, text, db) ==
    /\ conv[u] = "CERT_TYPING_THRESHOLD"
    /\ \E new_threshold \in {int(text)} :
       IF new_threshold.exc = "ValueError"
       THEN /\ out' = Sends(u, "set_new_threshold_and_process",
                            <<TextMessage("not a number")>>)
            /\ UNCHANGED <<user_data, conv, user_settings>>
       ELSE IF NotPositive(new_threshold.value)
       THEN /\ out' = Sends(u, "set_new_threshold_and_process",
                            <<TextMessage("enter a positive number")>>)
            /\ UNCHANGED <<user_data, conv, user_settings>>
       ELSE \E saved \in {save_user_threshold(u, new_threshold.value, db)} :
            IF saved.exc # "none"
            THEN /\ out' = Raises(u, "set_new_threshold_and_process", <<>>, saved.exc)
                 /\ UNCHANGED <<user_data, conv, user_settings>>
            ELSE \E data \in {[user_data[u] EXCEPT
                                    !.threshold = Some(new_threshold.value)]} :
                 \E p \in {process_with_threshold(data, new_threshold.value, today)} :
                 \E before \in {<<[kind |-> "threshold saved",
                                   threshold |-> new_threshold.value]>>} :
                     /\ user_settings' = saved.table
                     /\ IF p.raised = "ValueError"
                        THEN \* except (ValueError): around the whole body
                             /\ out' = [Processed(u, "set_new_threshold_and_process",
                                                  before, p)
                                        EXCEPT !.raised = "none",
                                               !.sent = before \o p.sent \o
                                                   <<TextMessage("not a number")>>]
                             /\ user_data' = [user_data EXCEPT ![u] = data]
                             /\ UNCHANGED conv
                        ELSE IF p.raised # "none"
                        THEN /\ out' = Processed(u, "set_new_threshold_and_process",
                                                 before, p)
                             /\ user_data' = [user_data EXCEPT ![u] = data]
                             /\ UNCHANGED conv
                        ELSE /\ out' = Processed(u, "set_new_threshold_and_process",
                                                 before, p)
                             /\ user_data' = [user_data EXCEPT
                                                 ![u] = PopCertAnalysisData(data)]
                             /\ conv' = [conv EXCEPT ![u] = "END"]
    /\ UNCHANGED <<today, permissions, workerVars, accessVars, menuVars, funVars>>

\* cancel: /cancel or 'Отмена', the fallback of the conversation
cancel(u) ==
    /\ conv[u] # "END"
    /\ user_data' = [user_data EXCEPT ![u] = EmptyUserData]
    /\ new_user' = [new_user EXCEPT ![u] = NoNewUser]
    /\ conv' = [conv EXCEPT ![u] = "END"]
    /\ out' = Sends(u, "cancel", <<TextMessage("cancelled")>>)
    /\ UNCHANGED <<today, permissions, user_settings, workerVars,
                   user_permissions_table, access_conv, menuVars, funVars>>

Init ==
    /\ today \in Todays
    /\ BotStart /\ WorkerStart /\ AccessStart /\ MenuStart /\ FunIdle

Next ==
    \E u \in Users :
        \/ cert_analysis_start(u)
        \/ \E file \in UploadedFiles : \E get_file \in GetFileAnswers(file) :
               handle_cert_upload(u, file, get_file)
        \/ \E db \in DbAnswers : ask_for_threshold_confirmation(u, db)
        \/ prompt_for_new_threshold(u)
        \/ \E db \in DbAnswers : process_with_current_threshold(u, db)
        \/ \E text \in ThresholdTexts, db \in DbAnswers :
               set_new_threshold_and_process(u, text, db)
        \/ cancel(u)

Spec == Init /\ [][Next]_vars

-----------------------------------------------------------------------------
(* The access-management conversation of bot.py.  Each of its database     *)
(* functions swallows its own failures: without a connection it returns,   *)
(* and an exception of the statement is logged.                            *)

\* db_save_user_permissions(user_id, username, permissions): the table after
db_save_user_permissions(table, user_id, perms, db) ==
    IF db = "ok" THEN [table EXCEPT ![user_id] = {PermsStr(perms)}] ELSE table

\* db_delete_user(user_id): the table after
db_delete_user(table, user_id, db) ==
    IF db = "ok" THEN [table EXCEPT ![user_id] = {}] ELSE table

\* db_load_all_permissions(): the rows of the table, {} when the database
\* does not answer
db_load_all_permissions(table, db) ==
    IF db = "ok"
    THEN [u \in {x \in DOMAIN table : table[x] # {}} |->
             SplitPerms(CHOOSE perms_str \in table[u] : TRUE)]
    ELSE [u \in {} |-> {}]

RECURSIVE IdText(_)
\* the decimal digits of a user ID
IdText(n) ==
    IF n < 10 THEN <<Digit(n)>> ELSE IdText(n \div 10) \o <<Digit(n % 10)>>

\* the messages sent in AWAITING_USER_INFO: a message forwarded from a user,
\* or a typed text
UserInfoMessages ==
    {[forward_origin |-> Some(id), text |-> <<>>] : id \in Users}
    \cup {[forward_origin |-> None, text |-> t] :
             t \in {IdText(id) : id \in Users} \cup {<<"a", "b">>}}

\* access_management_start: entry point, the menu button
access_management_start(u) ==
    /\ access_conv[u] = "END"
    /\ IF ~has_permission(u, "admin")
       THEN /\ out' = Sends(u, "access_management_start", <<>>)
            /\ UNCHANGED access_conv
       ELSE /\ out' = Sends(u, "access_management_start",
                            <<TextMessage("access menu")>>)
            /\ access_conv' = [access_conv EXCEPT ![u] = "ACCESS_MENU"]
    /\ UNCHANGED <<today, permissions, user_settings, user_data, conv,
                   user_permissions_table, new_user, workerVars, menuVars, funVars>>

\* access_back: the button 'access_back', in ACCESS_MENU
access_back(u) ==
    /\ access_conv[u] = "ACCESS_MENU"
    /\ out' = Sends(u, "access_back", <<TextMessage("back to main menu")>>)
    /\ access_conv' = [access_conv EXCEPT ![u] = "END"]
    /\ UNCHANGED <<today, permissions, user_settings, user_data, conv,
                   user_permissions_table, new_user, workerVars, menuVars, funVars>>

\* prompt_add_user: the button 'access_add', in ACCESS_MENU
prompt_add_user(u) ==
    /\ access_conv[u] = "ACCESS_MENU"
    /\ out' = Sends(u, "prompt_add_user", <<TextMessage("forward or type ID")>>)
    /\ access_conv' = [access_conv EXCEPT ![u] = "AWAITING_USER_INFO"]
    /\ UNCHANGED <<today, permissions, user_settings, user_data, conv,
                   user_permissions_table, new_user, workerVars, menuVars, funVars>>

\* get_user_info: a forwarded message or a text, in AWAITING_USER_INFO
get_user_info(u, message) ==
    /\ access_conv[u] = "AWAITING_USER_INFO"
    /\ \E user_id \in {IF message.forward_origin # None
                        THEN [exc |-> "none", value |-> TheValue(message.forward_origin)]
                        ELSE int(message.text)} :
           IF user_id.exc # "none"  \* except (ValueError, TypeError):
           THEN /\ out' = Sends(u, "get_user_info", <<TextMessage("not recognized")>>)
                /\ UNCHANGED <<access_conv, new_user>>
           ELSE /\ new_user' = [new_user EXCEPT ![u] =
                                   [id |-> Some(user_id.value), perms |-> {},
                                    has_new_user |-> TRUE]]
                /\ out' = Sends(u, "get_user_info",
                                <<TextMessage("choose permissions")>>)
                /\ access_conv' = [access_conv EXCEPT ![u] = "AWAITING_PERMISSIONS"]
    /\ UNCHANGED <<today, permissions, user_settings, user_data, conv,
                   user_permissions_table, workerVars, menuVars, funVars>>

\* toggle_permission: a button 'perm_<key>', in AWAITING_PERMISSIONS
toggle_permission(u, perm_key) ==
    /\ access_conv[u] = "AWAITING_PERMISSIONS"
    /\ IF ~new_user[u].has_new_user
       THEN /\ out' = Raises(u, "toggle_permission", <<>>, "KeyError")
            /\ UNCHANGED new_user
       ELSE /\ new_user' = [new_user EXCEPT ![u].perms =
                               IF perm_key \in @ THEN @ \ {perm_key}
                               ELSE @ \cup {perm_key}]
            /\ out' = Sends(u, "toggle_permission",
                            <<TextMessage("choose permissions")>>)
    /\ UNCHANGED <<today, permissions, user_settings, user_data, conv,
                   user_permissions_table, access_conv, workerVars, menuVars, funVars>>

\* save_new_user: the button 'perm_save', in AWAITING_PERMISSIONS
save_new_user(u, db_save, db_load) ==
    /\ access_conv[u] = "AWAITING_PERMISSIONS"
    /\ IF ~new_user[u].has_new_user
       THEN /\ out' = Raises(u, "save_new_user", <<>>, "KeyError")
            /\ UNCHANGED <<user_permissions_table, permissions, new_user,
                           user_data, access_conv>>
       ELSE /\ IF new_user[u].perms = {}
               THEN /\ out' = Sends(u, "save_new_user",
                                    <<TextMessage("no permission chosen"),
                                      TextMessage("access menu")>>)
                    /\ UNCHANGED <<user_permissions_table, permissions>>
               ELSE /\ user_permissions_table' =
                           db_save_user_permissions(user_permissions_table,
                                                    TheValue(new_user[u].id),
                                                    new_user[u].perms, db_save)
                    /\ permissions' =
                           db_load_all_permissions(user_permissions_table', db_load)
                    /\ out' = Sends(u, "save_new_user",
                                    <<TextMessage("user added"),
                                      TextMessage("access menu")>>)
            \* context.user_data.clear()
            /\ new_user' = [new_user EXCEPT ![u] = NoNewUser]
            /\ user_data' = [user_data EXCEPT ![u] = EmptyUserData]
            /\ access_conv' = [access_conv EXCEPT ![u] = "ACCESS_MENU"]
    /\ UNCHANGED <<today, user_settings, conv, workerVars, menuVars, funVars>>

\* the users prompt_delete_user makes a button for
Deletable == {user_id \in DOMAIN permissions : user_id # ADMIN_USER_ID}

\* prompt_delete_user: the button 'access_delete', in ACCESS_MENU
prompt_delete_user(u) ==
    /\ access_conv[u] = "ACCESS_MENU"
    /\ IF Deletable = {}
       THEN /\ out' = Sends(u, "prompt_delete_user",
                            <<TextMessage("no users to delete"),
                              TextMessage("access menu")>>)
            /\ UNCHANGED access_conv
       ELSE /\ out' = Sends(u, "prompt_delete_user",
                            <<[kind |-> "choose user", users |-> Deletable]>>)
            /\ access_conv' = [access_conv EXCEPT ![u] = "AWAITING_USER_TO_DELETE"]
    /\ UNCHANGED <<today, permissions, user_settings, user_data, conv,
                   user_permissions_table, new_user, workerVars, menuVars, funVars>>

\* delete_user: a button 'del_<id>' of a keyboard of prompt_delete_user, in
\* AWAITING_USER_TO_DELETE; no keyboard has a button of ADMIN_USER_ID
delete_user(u, user_id_to_delete, db_delete, db_load) ==
    /\ access_conv[u] = "AWAITING_USER_TO_DELETE"
    /\ user_id_to_delete # ADMIN_USER_ID
    /\ user_permissions_table' =
           db_delete_user(user_permissions_table, user_id_to_delete, db_delete)
    /\ permissions' = db_load_all_permissions(user_permissions_table', db_load)
    /\ out' = Sends(u, "delete_user",
                    <<TextMessage("user deleted"), TextMessage("access menu")>>)
    /\ access_conv' = [access_conv EXCEPT ![u] = "ACCESS_MENU"]
    /\ UNCHANGED <<today, user_settings, user_data, conv, new_user,
                   workerVars, menuVars, funVars>>

\* return_to_access_menu: the button 'access_show_menu'
return_to_access_menu(u) ==
    /\ access_conv[u] = "AWAITING_USER_TO_DELETE"
    /\ out' = Sends(u, "return_to_access_menu", <<TextMessage("access menu")>>)
    /\ access_conv' = [access_conv EXCEPT ![u] = "ACCESS_MENU"]
    /\ UNCHANGED <<today, permissions, user_settings, user_data, conv,
                   user_permissions_table, new_user, workerVars, menuVars, funVars>>

\* cancel, as the fallback of the access-management conversation, the last
\* of the four conversation handlers a /cancel is offered to
cancel_access_management(u) ==
    /\ conv[u] = "END" /\ youtube_conv[u] = "END" /\ akc_conv[u] = "END"
    /\ access_conv[u] # "END"
    /\ new_user' = [new_user EXCEPT ![u] = NoNewUser]
    /\ user_data' = [user_data EXCEPT ![u] = EmptyUserData]
    /\ access_conv' = [access_conv EXCEPT ![u] = "END"]
    /\ out' = Sends(u, "cancel", <<TextMessage("cancelled")>>)
    /\ UNCHANGED <<today, permissions, user_settings, conv,
                   user_permissions_table, workerVars, menuVars, funVars>>

AccessNext ==
    \E u \in Users :
        \/ access_management_start(u)
        \/ access_back(u)
        \/ prompt_add_user(u)
        \/ \E message \in UserInfoMessages : get_user_info(u, message)
        \/ \E perm_key \in AVAILABLE_PERMISSIONS : toggle_permission(u, perm_key)
        \/ \E db_save \in DbAnswers, db_load \in DbAnswers :
               save_new_user(u, db_save, db_load)
        \/ prompt_delete_user(u)
        \/ \E user_id_to_delete \in Users, db_delete \in DbAnswers,
              db_load \in DbAnswers :
               delete_user(u, user_id_to_delete, db_delete, db_load)
        \/ return_to_access_menu(u)
        \/ cancel_access_management(u)

AccessSpec == Init /\ [][AccessNext]_vars

-----------------------------------------------------------------------------
(* The entries of the other two conversations of bot.py, the first steps   *)
(* of the AKC form, and /cancel in each.  The handlers are tried in the    *)
(* order they were added: certificate analysis, YouTube, AKC form, access  *)
(* management; a /cancel ends the first of them that is past its entry.    *)

\* youtube_entry: entry point, the menu button
youtube_entry(u) ==
    /\ youtube_conv[u] = "END"
    /\ IF ~has_permission(u, "youtube")
       THEN /\ out' = Sends(u, "youtube_entry", <<>>)
            /\ UNCHANGED youtube_conv
       ELSE /\ out' = Sends(u, "youtube_entry", <<TextMessage("send a link")>>)
            /\ youtube_conv' = [youtube_conv EXCEPT ![u] = "AWAITING_YOUTUBE_LINK"]
    /\ UNCHANGED <<today, permissions, user_settings, user_data, conv,
                   accessVars, akc_conv, workerVars, funVars>>

\* what load_akc_defaults answers: the stored heading, None (no row, or no
\* connection), or the exception of the statement
AkcDefaults == {"found", "none", "error"}

\* akc_start: entry point, the menu button
akc_start(u, defaults) ==
    /\ akc_conv[u] = "END"
    /\ IF ~has_permission(u, "akc_form")
       THEN /\ out' = Sends(u, "akc_start", <<>>)
            /\ UNCHANGED <<user_data, akc_conv>>
       ELSE /\ user_data' = [user_data EXCEPT ![u].has_akc_form = TRUE,
                                              ![u].certificates = <<>>,
                                              ![u].cert_index = None]
            /\ IF defaults = "error"
               THEN /\ out' = Raises(u, "akc_start", <<>>, "DatabaseError")
                    /\ UNCHANGED akc_conv
               ELSE /\ out' = Sends(u, "akc_start", <<TextMessage("akc form")>>)
                    /\ akc_conv' = [akc_conv EXCEPT ![u] =
                                       IF defaults = "found" THEN "AKC_CONFIRM_DEFAULTS"
                                       ELSE "AKC_SENDER_FIO"]
    /\ UNCHANGED <<today, permissions, user_settings, conv,
                   accessVars, youtube_conv, workerVars, funVars>>

\* akc_use_defaults: the button 'akc_use_defaults', in AKC_CONFIRM_DEFAULTS
akc_use_defaults(u) ==
    /\ akc_conv[u] = "AKC_CONFIRM_DEFAULTS"
    /\ out' = Sends(u, "akc_use_defaults", <<TextMessage("send certificates")>>)
    /\ akc_conv' = [akc_conv EXCEPT ![u] = "AKC_AWAIT_CERTIFICATES"]
    /\ UNCHANGED <<today, permissions, user_settings, user_data, conv,
                   accessVars, youtube_conv, workerVars, funVars>>

\* akc_refill_defaults: the button 'akc_refill', in AKC_CONFIRM_DEFAULTS
akc_refill_defaults(u) ==
    /\ akc_conv[u] = "AKC_CONFIRM_DEFAULTS"
    /\ out' = Sends(u, "akc_refill_defaults", <<TextMessage("type the name")>>)
    /\ akc_conv' = [akc_conv EXCEPT ![u] = "AKC_SENDER_FIO"]
    /\ UNCHANGED <<today, permissions, user_settings, user_data, conv,
                   accessVars, youtube_conv, workerVars, funVars>>

\* akc_get_sender_fio: a text, in AKC_SENDER_FIO, when no conversation tried
\* before takes the text
akc_get_sender_fio(u) ==
    /\ akc_conv[u] = "AKC_SENDER_FIO"
    /\ conv[u] # "CERT_TYPING_THRESHOLD"
    /\ IF ~user_data[u].has_akc_form
       THEN /\ out' = Raises(u, "akc_get_sender_fio", <<>>, "KeyError")
            /\ UNCHANGED akc_conv
       ELSE /\ out' = Sends(u, "akc_get_sender_fio",
                            <<TextMessage("type the organization")>>)
            /\ akc_conv' = [akc_conv EXCEPT ![u] = "AKC_ORG_NAME"]
    /\ UNCHANGED <<today, permissions, user_settings, user_data, conv,
                   accessVars, youtube_conv, workerVars, funVars>>

\* cancel, as the fallback of the YouTube conversation
cancel_youtube(u) ==
    /\ conv[u] = "END"
    /\ youtube_conv[u] # "END"
    /\ new_user' = [new_user EXCEPT ![u] = NoNewUser]
    /\ user_data' = [user_data EXCEPT ![u] = EmptyUserData]
    /\ youtube_conv' = [youtube_conv EXCEPT ![u] = "END"]
    /\ out' = Sends(u, "cancel", <<TextMessage("cancelled")>>)
    /\ UNCHANGED <<today, permissions, user_settings, conv,
                   user_permissions_table, access_conv, akc_conv, workerVars, funVars>>

\* cancel, as the fallback of the AKC conversation
cancel_akc(u) ==
    /\ conv[u] = "END" /\ youtube_conv[u] = "END"
    /\ akc_conv[u] # "END"
    /\ new_user' = [new_user EXCEPT ![u] = NoNewUser]
    /\ user_data' = [user_data EXCEPT ![u] = EmptyUserData]
    /\ akc_conv' = [akc_conv EXCEPT ![u] = "END"]
    /\ out' = Sends(u, "cancel", <<TextMessage("cancelled")>>)
    /\ UNCHANGED <<today, permissions, user_settings, conv,
                   user_permissions_table, access_conv, youtube_conv, workerVars, funVars>>

-----------------------------------------------------------------------------
(* The AKC form: its heading, the attached certificates, and the loop over *)
(* the certificates that asks role, system, logins and action for each.    *)

\* context.user_data.pop('akc_form', None)
PopAkcForm(data) ==
    [data EXCEPT !.has_akc_form = FALSE, !.certificates = <<>>, !.cert_index = None]

\* the certificate files sent to the form: two readable ones, one that is
\* not a certificate
AkcFiles ==
    { [name |-> NameACer, bytes |-> PemCert(MaxDay)],
      [name |-> NameBCrt, bytes |-> DerCert(MaxDay)],
      [name |-> NameACer, bytes |-> NotCert] }

\* the values of the buttons role_..., citp_..., action_... and the typed logins
AkcRoles == {"head", "accountant"}
AkcSystems == {"finance"}
AkcActions == {"add", "replace"}
AkcTypedLogins == {"typed"}
\* what load_akc_logins answers: the stored logins, None, or an exception
AkcLogins == {"found", "none", "error"}

\* akc_get_org_name, akc_get_inn_kpp: a text, in AKC_ORG_NAME / AKC_INN_KPP
akc_get_org_name(u) ==
    /\ akc_conv[u] = "AKC_ORG_NAME"
    /\ conv[u] # "CERT_TYPING_THRESHOLD"
    /\ IF ~user_data[u].has_akc_form
       THEN /\ out' = Raises(u, "akc_get_org_name", <<>>, "KeyError")
            /\ UNCHANGED akc_conv
       ELSE /\ out' = Sends(u, "akc_get_org_name", <<TextMessage("type INN/KPP")>>)
            /\ akc_conv' = [akc_conv EXCEPT ![u] = "AKC_INN_KPP"]
    /\ UNCHANGED <<today, permissions, user_settings, user_data, conv,
                   accessVars, youtube_conv, workerVars, funVars>>

akc_get_inn_kpp(u) ==
    /\ akc_conv[u] = "AKC_INN_KPP"
    /\ conv[u] # "CERT_TYPING_THRESHOLD"
    /\ IF ~user_data[u].has_akc_form
       THEN /\ out' = Raises(u, "akc_get_inn_kpp", <<>>, "KeyError")
            /\ UNCHANGED akc_conv
       ELSE /\ out' = Sends(u, "akc_get_inn_kpp", <<TextMessage("type the municipality")>>)
            /\ akc_conv' = [akc_conv EXCEPT ![u] = "AKC_MUNICIPALITY"]
    /\ UNCHANGED <<today, permissions, user_settings, user_data, conv,
                   accessVars, youtube_conv, workerVars, funVars>>

\* akc_get_municipality: a text, in AKC_MUNICIPALITY; save_akc_defaults logs
\* its own failures
akc_get_municipality(u) ==
    /\ akc_conv[u] = "AKC_MUNICIPALITY"
    /\ conv[u] # "CERT_TYPING_THRESHOLD"
    /\ IF ~user_data[u].has_akc_form
       THEN /\ out' = Raises(u, "akc_get_municipality", <<>>, "KeyError")
            /\ UNCHANGED akc_conv
       ELSE /\ out' = Sends(u, "akc_get_municipality",
                            <<TextMessage("heading saved"),
                              TextMessage("send certificates")>>)
            /\ akc_conv' = [akc_conv EXCEPT ![u] = "AKC_AWAIT_CERTIFICATES"]
    /\ UNCHANGED <<today, permissions, user_settings, user_data, conv,
                   accessVars, youtube_conv, workerVars, funVars>>

\* akc_add_certificate: a .cer / .crt document, in AKC_AWAIT_CERTIFICATES,
\* when the certificate wizard does not take the document
akc_add_certificate(u, file) ==
    /\ akc_conv[u] = "AKC_AWAIT_CERTIFICATES"
    /\ conv[u] # "CERT_AWAIT_FILES"
    /\ Len(user_data[u].certificates) < MaxCertificates
    /\ \E cert_data \in {get_certificate_info(file.bytes, today)} :
       IF cert_data.raised # "none" \/ (~cert_data.is_none /\ ~user_data[u].has_akc_form)
       THEN \* except Exception as e:
            /\ out' = Sends(u, "akc_add_certificate",
                            <<TextMessage("error while processing the file")>>)
            /\ UNCHANGED user_data
       ELSE IF cert_data.is_none
       THEN /\ out' = Sends(u, "akc_add_certificate",
                            <<TextMessage("could not read the file")>>)
            /\ UNCHANGED user_data
       ELSE /\ user_data' = [user_data EXCEPT ![u].certificates =
                                Append(user_data[u].certificates,
                                       [cert_owner |-> cert_data.info.fio,
                                        cert_serial |-> cert_data.info.serial,
                                        cert_filename |-> file.name,
                                        role |-> "", citp_name |-> "",
                                        logins |-> "", action |-> ""])]
            /\ out' = Sends(u, "akc_add_certificate",
                            <<TextMessage("certificate added")>>)
    /\ UNCHANGED <<today, permissions, user_settings, conv,
                   accessVars, menuVars, workerVars, funVars>>

\* _akc_ask_for_role: reads certificates[cert_index]
AskForRole(u, data) ==
    IF data.cert_index = None THEN Raises(u, "_akc_ask_for_role", <<>>, "KeyError")
    ELSE IF TheValue(data.cert_index) >= Len(data.certificates)
    THEN Raises(u, "_akc_ask_for_role", <<>>, "IndexError")
    ELSE Sends(u, "_akc_ask_for_role",
               <<[kind |-> "choose role",
                  number |-> TheValue(data.cert_index) + 1,
                  of |-> Len(data.certificates),
                  owner |-> data.certificates[TheValue(data.cert_index) + 1].cert_owner]>>)

\* akc_start_data_loop: the text 'Готово', in AKC_AWAIT_CERTIFICATES, when
\* the certificate wizard does not take the text
akc_start_data_loop(u) ==
    /\ akc_conv[u] = "AKC_AWAIT_CERTIFICATES"
    /\ conv[u] \notin {"CERT_AWAIT_FILES", "CERT_TYPING_THRESHOLD"}
    /\ IF ~user_data[u].has_akc_form
       THEN /\ out' = Raises(u, "akc_start_data_loop", <<>>, "KeyError")
            /\ UNCHANGED <<user_data, akc_conv>>
       ELSE IF user_data[u].certificates = <<>>
       THEN /\ out' = Sends(u, "akc_start_data_loop",
                            <<TextMessage("no certificates, cancelled")>>)
            /\ user_data' = [user_data EXCEPT ![u] = PopAkcForm(user_data[u])]
            /\ akc_conv' = [akc_conv EXCEPT ![u] = "END"]
       ELSE \E data \in {[user_data[u] EXCEPT !.cert_index = Some(0)]} :
            /\ user_data' = [user_data EXCEPT ![u] = data]
            /\ out' = [AskForRole(u, data) EXCEPT
                          !.handler = "akc_start_data_loop",
                          !.sent = <<TextMessage("files accepted")>> \o @]
            /\ akc_conv' = [akc_conv EXCEPT ![u] = "AKC_ROLE"]
    /\ UNCHANGED <<today, permissions, user_settings, conv,
                   accessVars, youtube_conv, workerVars, funVars>>

\* context.user_data['akc_form']['certificates'][cert_index][key] = value:
\* the exception of the statement, or the form after it
SetCertificateField(data, key, value) ==
    IF ~data.has_akc_form \/ data.cert_index = None
    THEN [exc |-> "KeyError", data |-> data]
    ELSE IF TheValue(data.cert_index) >= Len(data.certificates)
    THEN [exc |-> "IndexError", data |-> data]
    ELSE [exc |-> "none",
          data |-> [data EXCEPT
                       !.certificates[TheValue(data.cert_index) + 1][key] = value]]

\* variant: after the role the form goes back to the certificate upload
AkcRoleReturnsToUpload(u, role) ==
    /\ akc_conv[u] = "AKC_ROLE"
    /\ \E set \in {SetCertificateField(user_data[u], "role", role)} :
       IF set.exc # "none"
       THEN /\ out' = Raises(u, "akc_get_role", <<>>, set.exc)
            /\ UNCHANGED <<user_data, akc_conv>>
       ELSE /\ user_data' = [user_data EXCEPT ![u] = set.data]
            /\ out' = Sends(u, "akc_get_role", <<TextMessage("choose system")>>)
            /\ akc_conv' = [akc_conv EXCEPT ![u] = "AKC_AWAIT_CERTIFICATES"]
    /\ UNCHANGED <<today, permissions, user_settings, conv,
                   accessVars, youtube_conv, workerVars, funVars>>

\* akc_get_role: a button role_..., in AKC_ROLE
akc_get_role(u, role) ==
    /\ akc_conv[u] = "AKC_ROLE"
    /\ \E set \in {SetCertificateField(user_data[u], "role", role)} :
       IF set.exc # "none"
       THEN /\ out' = Raises(u, "akc_get_role", <<>>, set.exc)
            /\ UNCHANGED <<user_data, akc_conv>>
       ELSE /\ user_data' = [user_data EXCEPT ![u] = set.data]
            /\ out' = Sends(u, "akc_get_role", <<TextMessage("choose system")>>)
            /\ akc_conv' = [akc_conv EXCEPT ![u] = "AKC_CITP_NAME"]
    /\ UNCHANGED <<today, permissions, user_settings, conv,
                   accessVars, youtube_conv, workerVars, funVars>>

\* akc_get_citp_name: a button citp_..., in AKC_CITP_NAME; load_akc_logins
\* has try / finally only
akc_get_citp_name(u, citp_name, saved_logins) ==
    /\ akc_conv[u] = "AKC_CITP_NAME"
    /\ \E set \in {SetCertificateField(user_data[u], "citp_name", citp_name)} :
       IF set.exc # "none"
       THEN /\ out' = Raises(u, "akc_get_citp_name", <<>>, set.exc)
            /\ UNCHANGED <<user_data, akc_conv>>
       ELSE IF saved_logins = "error"
       THEN /\ user_data' = [user_data EXCEPT ![u] = set.data]
            /\ out' = Raises(u, "akc_get_citp_name", <<>>, "DatabaseError")
            /\ UNCHANGED akc_conv
       ELSE IF saved_logins = "found"
       THEN /\ user_data' = [user_data EXCEPT ![u] =
                                [set.data EXCEPT !.akc_saved_logins = Some("saved")]]
            /\ out' = Sends(u, "akc_get_citp_name", <<TextMessage("use saved logins?")>>)
            /\ akc_conv' = [akc_conv EXCEPT ![u] = "AKC_CONFIRM_LOGINS"]
       ELSE /\ user_data' = [user_data EXCEPT ![u] = set.data]
            /\ out' = Sends(u, "akc_get_citp_name", <<TextMessage("type the logins")>>)
            /\ akc_conv' = [akc_conv EXCEPT ![u] = "AKC_LOGINS"]
    /\ UNCHANGED <<today, permissions, user_settings, conv,
                   accessVars, youtube_conv, workerVars, funVars>>

\* akc_use_saved_logins: the button logins_use_saved, in AKC_CONFIRM_LOGINS
akc_use_saved_logins(u) ==
    /\ akc_conv[u] = "AKC_CONFIRM_LOGINS"
    /\ \E saved \in {IF user_data[u].akc_saved_logins = None THEN NoValue
                     ELSE TheValue(user_data[u].akc_saved_logins)} :
       \E set \in {SetCertificateField(user_data[u], "logins", saved)} :
       IF set.exc # "none"
       THEN /\ out' = Raises(u, "akc_use_saved_logins", <<>>, set.exc)
            /\ UNCHANGED <<user_data, akc_conv>>
       ELSE /\ user_data' = [user_data EXCEPT ![u] =
                                [set.data EXCEPT !.akc_saved_logins = None]]
            /\ out' = Sends(u, "akc_use_saved_logins", <<TextMessage("choose action")>>)
            /\ akc_conv' = [akc_conv EXCEPT ![u] = "AKC_ACTION"]
    /\ UNCHANGED <<today, permissions, user_settings, conv,
                   accessVars, youtube_conv, workerVars, funVars>>

\* akc_enter_new_logins: the button logins_enter_new, in AKC_CONFIRM_LOGINS
akc_enter_new_logins(u) ==
    /\ akc_conv[u] = "AKC_CONFIRM_LOGINS"
    /\ out' = Sends(u, "akc_enter_new_logins", <<TextMessage("type the logins")>>)
    /\ akc_conv' = [akc_conv EXCEPT ![u] = "AKC_LOGINS"]
    /\ UNCHANGED <<today, permissions, user_settings, user_data, conv,
                   accessVars, youtube_conv, workerVars, funVars>>

\* akc_get_logins: a text, in AKC_LOGINS; save_akc_logins logs its own failures
akc_get_logins(u, logins) ==
    /\ akc_conv[u] = "AKC_LOGINS"
    /\ conv[u] # "CERT_TYPING_THRESHOLD"
    /\ \E set \in {SetCertificateField(user_data[u], "logins", logins)} :
       IF set.exc # "none"
       THEN /\ out' = Raises(u, "akc_get_logins", <<>>, set.exc)
            /\ UNCHANGED <<user_data, akc_conv>>
       ELSE /\ user_data' = [user_data EXCEPT ![u] = set.data]
            /\ out' = Sends(u, "akc_get_logins", <<TextMessage("choose action")>>)
            /\ akc_conv' = [akc_conv EXCEPT ![u] = "AKC_ACTION"]
    /\ UNCHANGED <<today, permissions, user_settings, conv,
                   accessVars, youtube_conv, workerVars, funVars>>

\* akc_finish: the archive holds the form, one row per certificate, and the
\* certificate files
akc_finish(form_data) ==
    [kind |-> "archive", rows |-> form_data.certificates,
     members |-> [i \in 1..Len(form_data.certificates) |->
                      form_data.certificates[i].cert_filename]]

\* akc_get_action: a button action_..., in AKC_ACTION
akc_get_action(u, action) ==
    /\ akc_conv[u] = "AKC_ACTION"
    /\ \E set \in {SetCertificateField(user_data[u], "action", action)} :
       IF set.exc # "none"
       THEN /\ out' = Raises(u, "akc_get_action", <<>>, set.exc)
            /\ UNCHANGED <<user_data, akc_conv>>
       ELSE \E data \in {[set.data EXCEPT
                             !.cert_index = Some(TheValue(set.data.cert_index) + 1)]} :
            IF TheValue(data.cert_index) < Len(data.certificates)
            THEN /\ user_data' = [user_data EXCEPT ![u] = data]
                 /\ out' = [AskForRole(u, data) EXCEPT !.handler = "akc_get_action"]
                 /\ akc_conv' = [akc_conv EXCEPT ![u] = "AKC_ROLE"]
            ELSE /\ out' = Sends(u, "akc_get_action",
                                 <<TextMessage("building the archive"),
                                   akc_finish(data)>>)
                 /\ user_data' = [user_data EXCEPT ![u] = PopAkcForm(data)]
                 /\ akc_conv' = [akc_conv EXCEPT ![u] = "END"]
    /\ UNCHANGED <<today, permissions, user_settings, conv,
                   accessVars, youtube_conv, workerVars, funVars>>

-----------------------------------------------------------------------------
(* AkcSpec: the AKC form of the main administrator, from the menu button   *)
(* to the archive, beside the entry and the /cancel of the certificate     *)
(* wizard, which is tried before the AKC form.                             *)

AkcNext ==
    \E u \in {ADMIN_USER_ID} :
        \/ \E defaults \in AkcDefaults : akc_start(u, defaults)
        \/ akc_use_defaults(u)
        \/ akc_refill_defaults(u)
        \/ akc_get_sender_fio(u)
        \/ akc_get_org_name(u)
        \/ akc_get_inn_kpp(u)
        \/ akc_get_municipality(u)
        \/ \E file \in AkcFiles : akc_add_certificate(u, file)
        \/ akc_start_data_loop(u)
        \/ \E role \in AkcRoles : akc_get_role(u, role)
        \/ \E citp_name \in AkcSystems, saved_logins \in AkcLogins :
               akc_get_citp_name(u, citp_name, saved_logins)
        \/ akc_use_saved_logins(u)
        \/ akc_enter_new_logins(u)
        \/ \E logins \in AkcTypedLogins : akc_get_logins(u, logins)
        \/ \E action \in AkcActions : akc_get_action(u, action)
        \/ cancel_akc(u)
        \/ cert_analysis_start(u)
        \/ cancel(u)

AkcSpec == Init /\ [][AkcNext]_vars

-----------------------------------------------------------------------------
(* EntrySpec: the four entry handlers, and /cancel, under every content of *)
(* the permissions cache.                                                  *)

\* the rows of the cache: no entry ({}), one feature, two features, admin
EntryPermissions ==
    { {}, {"cert_analysis"}, {"akc_form"}, {"youtube"}, {"admin"},
      {"cert_analysis", "youtube"} }

EntryInit ==
    /\ today = 2
    /\ \E rows \in [Users -> EntryPermissions] :
           permissions = [u \in {x \in Users : rows[x] # {}} |-> rows[u]]
    /\ user_settings = [u \in Users |-> None]
    /\ user_data = [u \in Users |-> EmptyUserData]
    /\ conv = [u \in Users |-> "END"]
    /\ out = NoOut
    /\ WorkerStart /\ AccessStart /\ MenuStart /\ FunIdle

EntryNext ==
    \E u \in Users :
        \/ cert_analysis_start(u)
        \/ youtube_entry(u)
        \/ \E defaults \in AkcDefaults : akc_start(u, defaults)
        \/ access_management_start(u)
        \/ cancel(u)
        \/ cancel_youtube(u)
        \/ cancel_akc(u)
        \/ cancel_access_management(u)

EntrySpec == EntryInit /\ [][EntryNext]_vars

-----------------------------------------------------------------------------
(* MenuSpec: /start and the help button, beside access management.         *)

\* authorized_user_filter = filters.User(user_id=...keys()): the filter
\* copies the IDs it is built with, the keys of the cache loaded at start
authorized_user_filter == {ADMIN_USER_ID}

\* the buttons of the main menu
MenuButtons(u) ==
    {f \in {"cert_analysis", "akc_form", "youtube", "admin"} : has_permission(u, f)}
    \cup {"help"}

\* start: the command /start, from a user the filter passes
start(u) ==
    /\ u \in authorized_user_filter
    /\ out' = Sends(u, "start", <<[kind |-> "menu", buttons |-> MenuButtons(u)]>>)
    /\ UNCHANGED <<today, permissions, user_settings, user_data, conv,
                   accessVars, menuVars, workerVars, funVars>>

\* help_command: the help button, from a user the filter passes
help_command(u) ==
    /\ u \in authorized_user_filter
    /\ out' = Sends(u, "help_command", <<TextMessage("help")>>)
    /\ UNCHANGED <<today, permissions, user_settings, user_data, conv,
                   accessVars, menuVars, workerVars, funVars>>

MenuNext ==
    \/ AccessNext
    \/ \E u \in Users : start(u)
    \/ \E u \in Users : help_command(u)

MenuSpec == Init /\ [][MenuNext]_vars

-----------------------------------------------------------------------------
(* RevokeSpec: access management and the certificate wizard together: the  *)
(* users manage the access of OtherUser while OtherUser analyses           *)
(* certificates.  The database answers every call.                         *)

\* the file OtherUser uploads
RevokeFile ==
    [name |-> NameACer, size |-> SmallSize,
     bytes |-> [cert |-> PemCert(MaxDay), zip |-> NotZip]]

RevokeNext ==
    \/ \E u \in Users :
           \/ access_management_start(u)
           \/ access_back(u)
           \/ prompt_add_user(u)
           \/ get_user_info(u, [forward_origin |-> Some(OtherUser), text |-> <<>>])
           \/ \E perm_key \in AVAILABLE_PERMISSIONS : toggle_permission(u, perm_key)
           \/ save_new_user(u, "ok", "ok")
           \/ prompt_delete_user(u)
           \/ delete_user(u, OtherUser, "ok", "ok")
           \/ return_to_access_menu(u)
    \/ cert_analysis_start(OtherUser)
    \/ handle_cert_upload(OtherUser, RevokeFile, "ok")
    \/ ask_for_threshold_confirmation(OtherUser, "ok")
    \/ process_with_current_threshold(OtherUser, "ok")

RevokeSpec == Init /\ [][RevokeNext]_vars

-----------------------------------------------------------------------------
(* SessionSpec: the conversations of one user, the main administrator, who *)
(* may be in several of them at once; they share context.user_data.  The  *)
(* database answers every call.                                            *)

SessionNext ==
    \E u \in {ADMIN_USER_ID} :
        \/ cert_analysis_start(u)
        \/ handle_cert_upload(u, RevokeFile, "ok")
        \/ ask_for_threshold_confirmation(u, "ok")
        \/ process_with_current_threshold(u, "ok")
        \/ cancel(u)
        \/ \E defaults \in AkcDefaults : akc_start(u, defaults)
        \/ akc_use_defaults(u)
        \/ akc_refill_defaults(u)
        \/ akc_get_sender_fio(u)
        \/ cancel_akc(u)
        \/ access_management_start(u)
        \/ access_back(u)
        \/ prompt_add_user(u)
        \/ get_user_info(u, [forward_origin |-> Some(OtherUser), text |-> <<>>])
        \/ toggle_permission(u, "cert_analysis")
        \/ save_new_user(u, "ok", "ok")
        \/ cancel_access_management(u)

SessionSpec == Init /\ [][SessionNext]_vars

-----------------------------------------------------------------------------
(* WizardSpec: the three wizards of the main administrator side by side:   *)
(* the AKC form, the certificate analysis and the access management.  The  *)
(* database answers every call.                                            *)

WizardNext ==
    \/ \E u \in {ADMIN_USER_ID} :
           \/ \E defaults \in {"found", "none"} : akc_start(u, defaults)
           \/ akc_use_defaults(u)
           \/ akc_refill_defaults(u)
           \/ akc_get_sender_fio(u)
           \/ akc_get_org_name(u)
           \/ akc_get_inn_kpp(u)
           \/ akc_get_municipality(u)
           \/ akc_add_certificate(u, [name |-> NameACer, bytes |-> PemCert(MaxDay)])
           \/ akc_start_data_loop(u)
           \/ akc_get_role(u, "head")
           \/ \E saved_logins \in {"found", "none"} :
                  akc_get_citp_name(u, "finance", saved_logins)
           \/ akc_use_saved_logins(u)
           \/ akc_enter_new_logins(u)
           \/ akc_get_logins(u, "typed")
           \/ akc_get_action(u, "add")
           \/ cancel_akc(u)
           \/ cert_analysis_start(u)
           \/ cancel(u)
    \/ \E u \in {ADMIN_USER_ID} :
           \/ handle_cert_upload(u, RevokeFile, "ok")
           \/ ask_for_threshold_confirmation(u, "ok")
           \/ prompt_for_new_threshold(u)
           \/ process_with_current_threshold(u, "ok")
           \/ \E text \in {<<"2">>, <<"a", "b">>} :
                  set_new_threshold_and_process(u, text, "ok")
           \/ access_management_start(u)
           \/ access_back(u)
           \/ prompt_add_user(u)
           \/ get_user_info(u, [forward_origin |-> Some(OtherUser), text |-> <<>>])
           \/ toggle_permission(u, "cert_analysis")
           \/ save_new_user(u, "ok", "ok")
           \/ prompt_delete_user(u)
           \/ delete_user(u, OtherUser, "ok", "ok")
           \/ return_to_access_menu(u)
           \/ cancel_access_management(u)

WizardSpec == Init /\ [][WizardNext]_vars

-----------------------------------------------------------------------------
(* worker.py: the document handler and the settings conversation.  Its     *)
(* handlers are registered for the users of ALLOWED_USER_IDS only, which   *)
(* holds the main administrator alone; it reads and writes the same table  *)
(* user_settings.                                                          *)

ALLOWED_USER_IDS == {ADMIN_USER_ID}

\* allowed_extensions_filter: filters.Document.FileExtension of zip, cer,
\* crt, pem, der (the filter lowers the file name)
allowed_extensions_filter(file) ==
    EndsWithZip(file.name) \/ EndsWithAllowed(file.name)

\* the try of handle_document: download, _process_file_content, report; the
\* exception it ends with ("none": none) and the messages sent in it
DocumentBody(file, user_threshold, now) ==
    ByValue(_process_file_content(file.bytes, file.name, now), LAMBDA p :
        [exc |-> p.raised,
         records |-> p.records,
         sent |-> IF p.raised # "none" THEN <<>>
                  ELSE ReportMessages(p.records, user_threshold)])

\* handle_document: a document with an allowed extension
handle_document(u, file, db) ==
    /\ u \in ALLOWED_USER_IDS
    /\ allowed_extensions_filter(file)
    /\ IF file.size > MAX_FILE_SIZE
       THEN /\ w_out' = Sends(u, "handle_document", <<TextMessage("file too big")>>)
            /\ UNCHANGED w_user_data
       ELSE \E t \in {get_user_threshold(u, w_user_data.threshold, db)} :
            IF t.exc # "none"
            THEN /\ w_out' = Raises(u, "handle_document", <<>>, t.exc)
                 /\ UNCHANGED w_user_data
            ELSE \E b \in {DocumentBody(file, t.value, today)} :
                 /\ w_user_data' = [w_user_data EXCEPT !.threshold = t.cached]
                 /\ w_out' =
                        [user |-> u, handler |-> "handle_document",
                         sent |-> <<TextMessage("analyzing")>> \o b.sent \o
                                  (IF b.exc # "none"  \* except Exception as e:
                                   THEN <<TextMessage("unexpected error")>>
                                   ELSE <<>>),
                         raised |-> "none", pipeline_ran |-> TRUE,
                         batch |-> <<file>>,
                         processed |-> IF b.exc # "none" THEN 0 ELSE 1,
                         collected |-> b.records, threshold |-> Some(t.value)]
    /\ UNCHANGED <<today, botVars, w_conv, accessVars, menuVars, funVars>>

\* handle_wrong_document: any other document
handle_wrong_document(u, file) ==
    /\ u \in ALLOWED_USER_IDS
    /\ ~allowed_extensions_filter(file)
    /\ w_out' = Sends(u, "handle_wrong_document", <<TextMessage("wrong format")>>)
    /\ UNCHANGED <<today, botVars, w_user_data, w_conv, accessVars, menuVars, funVars>>

\* settings_entry: the settings button, entry point of the conversation
settings_entry(u, db) ==
    /\ u \in ALLOWED_USER_IDS
    /\ w_conv = "END"
    /\ \E t \in {get_user_threshold(u, w_user_data.threshold, db)} :
       IF t.exc # "none"
       THEN /\ w_out' = Raises(u, "settings_entry", <<>>, t.exc)
            /\ UNCHANGED <<w_user_data, w_conv>>
       ELSE /\ w_user_data' = [w_user_data EXCEPT !.threshold = t.cached]
            /\ w_conv' = "CHOOSING_ACTION"
            /\ w_out' = Sends(u, "settings_entry",
                              <<[kind |-> "settings", current |-> t.value]>>)
    /\ UNCHANGED <<today, botVars, accessVars, menuVars, funVars>>

\* prompt_for_days: the button change_threshold, in CHOOSING_ACTION
prompt_for_days(u) ==
    /\ w_conv = "CHOOSING_ACTION"
    /\ w_conv' = "TYPING_DAYS"
    /\ w_out' = Sends(u, "prompt_for_days", <<TextMessage("type the days")>>)
    /\ UNCHANGED <<today, botVars, w_user_data, accessVars, menuVars, funVars>>

\* end_conversation: the button back_to_main, in CHOOSING_ACTION
end_conversation(u) ==
    /\ w_conv = "CHOOSING_ACTION"
    /\ w_conv' = "END"
    /\ w_out' = Sends(u, "end_conversation", <<TextMessage("settings closed")>>)
    /\ UNCHANGED <<today, botVars, w_user_data, accessVars, menuVars, funVars>>

\* set_days: a text, in TYPING_DAYS
set_days(u, text, db) ==
    /\ w_conv = "TYPING_DAYS"
    /\ \E new_threshold \in {int(text)} :
       IF new_threshold.exc = "ValueError"
       THEN /\ w_out' = Sends(u, "set_days", <<TextMessage("not a number")>>)
            /\ UNCHANGED <<w_user_data, w_conv, user_settings>>
       ELSE IF NotPositive(new_threshold.value)
       THEN /\ w_out' = Sends(u, "set_days",
                              <<TextMessage("enter a positive number")>>)
            /\ UNCHANGED <<w_user_data, w_conv, user_settings>>
       ELSE \E saved \in {save_user_threshold(u, new_threshold.value, db)} :
            \* context.user_data['threshold'] is written before the save
            /\ w_user_data' = [w_user_data EXCEPT
                                  !.threshold = Some(new_threshold.value)]
            /\ IF saved.exc # "none"
               THEN /\ w_out' = Raises(u, "set_days", <<>>, saved.exc)
                    /\ UNCHANGED <<w_conv, user_settings>>
               ELSE /\ user_settings' = saved.table
                    /\ w_conv' = "END"
                    /\ w_out' = Sends(u, "set_days",
                                      <<[kind |-> "threshold saved",
                                         threshold |-> new_threshold.value]>>)
    /\ UNCHANGED <<today, permissions, user_data, conv, out, accessVars, menuVars, funVars>>

\* cancel of worker.py: a menu button, the fallback of the conversation
worker_cancel(u) ==
    /\ w_conv # "END"
    /\ w_conv' = "END"
    /\ w_out' = Sends(u, "cancel", <<TextMessage("cancelled")>>)
    /\ UNCHANGED <<today, botVars, w_user_data, accessVars, menuVars, funVars>>

WorkerNext ==
    \E u \in ALLOWED_USER_IDS :
        \/ \E file \in UploadedFiles, db \in DbAnswers : handle_document(u, file, db)
        \/ \E file \in UploadedFiles : handle_wrong_document(u, file)
        \/ \E db \in DbAnswers : settings_entry(u, db)
        \/ prompt_for_days(u)
        \/ end_conversation(u)
        \/ \E text \in ThresholdTexts, db \in DbAnswers : set_days(u, text, db)
        \/ worker_cancel(u)

WorkerSpec == Init /\ [][WorkerNext]_vars

-----------------------------------------------------------------------------
(* ExtractSpec: get_certificate_info applied to every reading of bytes.    *)

ExtractInit ==
    /\ today \in Todays
    /\ BotStart /\ WorkerStart /\ AccessStart /\ MenuStart
    /\ arg \in {[fn |-> "get_certificate_info", cert_bytes |-> c] : c \in CertReadings}
    /\ ret = NoCall

ExtractCall ==
    /\ arg.fn = "get_certificate_info"
    /\ ret = NoCall
    /\ ret' = [fn |-> "get_certificate_info",
               result |-> get_certificate_info(arg.cert_bytes, today)]
    /\ UNCHANGED <<today, botVars, workerVars, accessVars, menuVars, arg>>

ExtractNext == ExtractCall

ExtractSpec == ExtractInit /\ [][ExtractNext]_vars

-----------------------------------------------------------------------------
(* ClockSpec: get_certificate_info applied to the same bytes on one day    *)
(* and again on later days; datetime.now() is read by each call.           *)

ClockCerts ==
    {PemCert(d) : d \in Days} \cup {DerCert(d) : d \in Days}
    \cup {NotCert, BadSubjectCert}

ClockInit ==
    /\ today \in Todays
    /\ BotStart /\ WorkerStart /\ AccessStart /\ MenuStart
    /\ arg \in {[fn |-> "get_certificate_info", cert_bytes |-> c, uploaded |-> today] :
                c \in ClockCerts}
    /\ ret = NoCall

\* midnight passes
ClockTick ==
    /\ today < MaxDay
    /\ today' = today + 1
    /\ UNCHANGED <<botVars, workerVars, accessVars, menuVars, arg, ret>>

\* one more invocation on the same bytes; earlier: the invocation before
ClockCall ==
    /\ IF ret = NoCall THEN TRUE ELSE ret.at < today
    /\ ret' = [fn |-> "get_certificate_info",
               result |-> get_certificate_info(arg.cert_bytes, today),
               at |-> today,
               earlier |-> IF ret = NoCall THEN {}
                           ELSE {[at |-> ret.at, result |-> ret.result]}]
    /\ UNCHANGED <<today, botVars, workerVars, accessVars, menuVars, arg>>

ClockNext == ClockTick \/ ClockCall

ClockSpec == ClockInit /\ [][ClockNext]_vars

-----------------------------------------------------------------------------
(* InterleaveSpec: two invocations of the pipeline, each on its own list   *)
(* of files, whose steps (one file collected, the report rendered, the     *)
(* summary made) interleave in every way.  What an invocation works on is  *)
(* local to it: all_certs_data, the Workbook, sorted_cert_data,            *)
(* expiring_soon_certs; the module-level fills are only read.              *)

InterleaveFiles ==
    { [name |-> NameACer, size |-> SmallSize,
       bytes |-> [cert |-> PemCert(1), zip |-> NotZip]],
      [name |-> NameYZip, size |-> SmallSize,
       bytes |-> [cert |-> NotCert, zip |-> SampleArchive]],
      [name |-> NameXZip, size |-> SmallSize,
       bytes |-> [cert |-> NotCert, zip |-> EncryptedMemberArchive]] }

\* the lists of the second invocation
OtherLists ==
    { <<>>,
      <<[name |-> NameBCrt, size |-> SmallSize,
         bytes |-> [cert |-> DerCert(3), zip |-> NotZip]]>>,
      <<[name |-> NameYZip, size |-> SmallSize,
         bytes |-> [cert |-> NotCert, zip |-> SampleArchive]],
        [name |-> NameACer, size |-> SmallSize,
         bytes |-> [cert |-> PemCert(0), zip |-> NotZip]]>> }

\* an invocation before its first step
NewTask(files, threshold) ==
    [files |-> files, threshold |-> threshold, i |-> 1, all_certs_data |-> <<>>,
     rows |-> <<>>, summary |-> <<>>, pc |-> "collect"]

\* one step of an invocation
TaskStep(task, now) ==
    IF task.pc = "collect"
    THEN IF task.i > Len(task.files)
         THEN [task EXCEPT !.pc = "render"]
         ELSE ByValue(_process_file_content(task.files[task.i].bytes,
                                            task.files[task.i].name, now),
                      LAMBDA processed_data :
                  IF processed_data.raised # "none"
                  THEN [task EXCEPT !.pc = "raised"]
                  ELSE [task EXCEPT !.i = @ + 1,
                                    !.all_certs_data = @ \o processed_data.records])
    ELSE IF task.pc = "render"
    THEN [task EXCEPT !.rows = create_excel_report(task.all_certs_data, task.threshold),
                      !.all_certs_data = ListAfterSorted(task.all_certs_data),
                      !.pc = "summarize"]
    ELSE [task EXCEPT !.summary = generate_summary_message(task.all_certs_data,
                                                           task.threshold),
                      !.pc = "done"]

InterleaveInit ==
    /\ today = 2
    /\ BotStart /\ WorkerStart /\ AccessStart /\ MenuStart
    /\ arg \in {[fn |-> "pipeline", files |-> <<a, b>>, threshold |-> <<t, MaxThreshold>>] :
                a \in SeqsUpTo(InterleaveFiles, MaxFiles), b \in OtherLists,
                t \in 1..MaxThreshold}
    /\ ret = [fn |-> "pipeline",
              task |-> [k \in 1..2 |-> NewTask(arg.files[k], arg.threshold[k])]]

InterleaveStep(k) ==
    /\ ret.task[k].pc \in {"collect", "render", "summarize"}
    /\ ret' = [ret EXCEPT !.task[k] = TaskStep(ret.task[k], today)]
    /\ UNCHANGED <<today, botVars, workerVars, accessVars, menuVars, arg>>

InterleaveNext == \E k \in 1..2 : InterleaveStep(k)

InterleaveSpec == InterleaveInit /\ [][InterleaveNext]_vars

-----------------------------------------------------------------------------
(* RepeatSpec: the pipeline run twice on the same files with the same      *)
(* threshold, at any two moments: later the same day, or on a later day.   *)

\* one run: collection, then the report; now is datetime.now()
PipelineRun(files, threshold, now) ==
    ByValue(FileLoop(files, 1, <<>>, date(now)), LAMBDA loop :
        [at |-> now,
         raised |-> loop.exc,
         records |-> loop.all_certs_data,
         rows |-> IF loop.exc # "none" THEN <<>>
                  ELSE create_excel_report(loop.all_certs_data, threshold)])

RepeatInit ==
    /\ today \in Todays
    /\ BotStart /\ WorkerStart /\ AccessStart /\ MenuStart
    /\ arg \in {[fn |-> "pipeline_twice", files |-> f, threshold |-> t] :
                f \in SeqsUpTo(InterleaveFiles, MaxFiles), t \in 1..MaxThreshold}
    /\ ret = [fn |-> "pipeline_twice", runs |-> <<>>]

\* midnight passes
RepeatTick ==
    /\ today < MaxDay
    /\ today' = today + 1
    /\ UNCHANGED <<botVars, workerVars, accessVars, menuVars, arg, ret>>

RepeatRun(tod) ==
    /\ Len(ret.runs) < 2
    /\ ret' = [ret EXCEPT !.runs =
                  Append(@, PipelineRun(arg.files, arg.threshold,
                                        [day |-> today, tod |-> tod]))]
    /\ UNCHANGED <<today, botVars, workerVars, accessVars, menuVars, arg>>

RepeatNext == RepeatTick \/ \E tod \in {0, 1} : RepeatRun(tod)

RepeatSpec == RepeatInit /\ [][RepeatNext]_vars

-----------------------------------------------------------------------------
(* ArchiveSpec: _process_file_content applied to every archive, under a    *)
(* .zip name.                                                              *)

ArchiveInit ==
    /\ today \in Todays
    /\ BotStart /\ WorkerStart /\ AccessStart /\ MenuStart
    /\ arg \in {[fn |-> "_process_file_content", file_name |-> n,
                 file_bytes |-> [cert |-> NotCert, zip |-> z]] :
                n \in {NameXZip, NameYZip}, z \in Archives}
    /\ ret = NoCall

ArchiveCall ==
    /\ arg.fn = "_process_file_content"
    /\ ret = NoCall
    /\ ret' = [fn |-> "_process_file_content",
               result |-> _process_file_content(arg.file_bytes, arg.file_name, today)]
    /\ UNCHANGED <<today, botVars, workerVars, accessVars, menuVars, arg>>

ArchiveNext == ArchiveCall

ArchiveSpec == ArchiveInit /\ [][ArchiveNext]_vars

-----------------------------------------------------------------------------
(* DispatchSpec: _process_file_content applied to bytes under every kind   *)
(* of name.                                                                *)

\* names whose suffixes overlap, or lack the dot
NameMixedZip == <<"q", ".", "Z", "i", "p">>
NameCerZip   == <<"a", ".", "c", "e", "r", ".", "z", "i", "p">>
NameZipCer   == <<"a", ".", "z", "i", "p", ".", "C", "E", "R">>
NameZip      == <<"z", "i", "p">>
NameZipX     == <<"a", ".", "z", "i", "p", "x">>
NameEmpty    == <<>>

\* the names that end in .zip, in a recognized certificate suffix, in neither
ZipNames == {NameXZip, NameYZip, NameMixedZip, NameCerZip}
DirectCertNames == CertNames \cup {NameZipCer}
IgnoredNames == OtherNames \cup {NameZip, NameZipX, NameEmpty}

\* the bytes handed over: what x509 answers on them and what zipfile answers
DispatchBytes ==
    [cert : {PemCert(MaxDay), DerCert(1), NotCert, BadSubjectCert},
     zip : {NotZip, SampleArchive, EncryptedMemberArchive, DamagedMemberArchive}]

DispatchInit ==
    /\ today \in Todays
    /\ BotStart /\ WorkerStart /\ AccessStart /\ MenuStart
    /\ arg \in {[fn |-> "_process_file_content", file_name |-> n, file_bytes |-> b] :
                n \in ZipNames \cup DirectCertNames \cup IgnoredNames,
                b \in DispatchBytes}
    /\ ret = NoCall

DispatchCall ==
    /\ arg.fn = "_process_file_content"
    /\ ret = NoCall
    /\ ret' = [fn |-> "_process_file_content",
               result |-> _process_file_content(arg.file_bytes, arg.file_name, today)]
    /\ UNCHANGED <<today, botVars, workerVars, accessVars, menuVars, arg>>

DispatchNext == DispatchCall

DispatchSpec == DispatchInit /\ [][DispatchNext]_vars

-----------------------------------------------------------------------------
(* ThresholdSpec: get_user_threshold applied to every cache, every table   *)
(* and every answer of the database.                                       *)

\* what a cache or a row of user_settings holds: nothing, or a threshold a
\* user typed (the default among them)
StoredThresholds ==
    {None, Some(EXPIRATION_THRESHOLD_DAYS)} \cup {Some(n) : n \in 1..MaxThreshold}

ThresholdInit ==
    /\ today \in Todays
    /\ permissions = [u \in {ADMIN_USER_ID} |-> {"admin"}]
    /\ user_settings \in [Users -> StoredThresholds]
    /\ user_data = [u \in Users |-> EmptyUserData]
    /\ conv = [u \in Users |-> "END"]
    /\ out = NoOut
    /\ WorkerStart /\ AccessStart /\ MenuStart
    /\ arg \in {[fn |-> "get_user_threshold", user_id |-> u, cached |-> c, db |-> db] :
                u \in Users, c \in StoredThresholds, db \in DbAnswers}
    /\ ret = NoCall

ThresholdCall ==
    /\ arg.fn = "get_user_threshold"
    /\ ret = NoCall
    /\ ret' = [fn |-> "get_user_threshold",
               result |-> get_user_threshold(arg.user_id, arg.cached, arg.db)]
    /\ UNCHANGED <<today, botVars, workerVars, accessVars, menuVars, arg>>

ThresholdNext == ThresholdCall

ThresholdSpec == ThresholdInit /\ [][ThresholdNext]_vars

-----------------------------------------------------------------------------
(* ReportSpec: create_excel_report, then generate_summary_message, applied *)
(* to every list of dicts and every threshold, as process_with_threshold   *)
(* applies them.                                                           *)

Thresholds == 1..MaxThreshold

ReportInit ==
    /\ today = 2
    /\ BotStart /\ WorkerStart /\ AccessStart /\ MenuStart
    /\ arg \in {[fn |-> "report", cert_data_list |-> l, user_threshold |-> t] :
                l \in SeqsUpTo(CertDicts(2), MaxRecords), t \in Thresholds}
    /\ ret = NoCall

ReportCallExcel ==
    /\ arg.fn = "report"
    /\ ret = NoCall
    /\ ret' = [fn |-> "create_excel_report",
               rows |-> create_excel_report(arg.cert_data_list, arg.user_threshold),
               summary |-> <<>>]
    /\ UNCHANGED <<today, botVars, workerVars, accessVars, menuVars, arg>>

ReportCallSummary ==
    /\ arg.fn = "report"
    /\ ret.fn = "create_excel_report"
    /\ ret' = [fn |-> "generate_summary_message",
               rows |-> ret.rows,
               summary |-> generate_summary_message(arg.cert_data_list,
                                                    arg.user_threshold)]
    /\ UNCHANGED <<today, botVars, workerVars, accessVars, menuVars, arg>>

ReportNext == ReportCallExcel \/ ReportCallSummary

ReportSpec == ReportInit /\ [][ReportNext]_vars

-----------------------------------------------------------------------------
(* Claims about the renderer, checked under ReportSpec.                    *)

ReportBuilt == ret.fn \in {"create_excel_report", "generate_summary_message"}

SummaryBuilt == ret.fn = "generate_summary_message"

\* the summary has a line for the dict c: its name, its expiry date as
\* day.month.year and its days remaining
Mentioned(summary, c) ==
    \E j \in 1..Len(summary) :
        /\ summary[j].kind = "cert"
        /\ summary[j].fio = c.fio
        /\ summary[j].valid_until = strftime(c.valid_until)
        /\ summary[j].days_left = c.days_left

\* the dicts of the rows, in row order
RowCerts(rows) == [i \in 1..Len(rows) |-> rows[i].cert]

\* C1: every row of the report has exactly one of the three fills: the alert
\* fill (red) iff its days remaining are negative, the warning fill (orange)
\* iff they are between 0 and the threshold, both included, and the positive
\* fill (green) iff they are above the threshold.
C1_FillPartition ==
    ReportBuilt =>
        \A i \in 1..Len(ret.rows) :
            LET d == ret.rows[i].cells[6]
                f == ret.rows[i].fill
                t == arg.user_threshold
            IN  /\ f \in {RED_FILL, ORANGE_FILL, GREEN_FILL}
                /\ (f = RED_FILL) <=> (d < 0)
                /\ (f = ORANGE_FILL) <=> (0 <= d /\ d <= t)
                /\ (f = GREEN_FILL) <=> (d > t)

\* a report with a red, an orange and a green row
C1_Witness ==
    /\ ReportBuilt
    /\ {ret.rows[i].fill : i \in 1..Len(ret.rows)} = {RED_FILL, ORANGE_FILL, GREEN_FILL}
    /\ \E i \in 1..Len(ret.rows) : ret.rows[i].cells[6] > arg.user_threshold

\* C2: the summary mentions a dict of the list iff its days remaining are
\* between 0 and the threshold, both included; an expired or a valid one is
\* never mentioned, and every line of the summary is the line of such a dict.
C2_SummaryIffExpiringSoon ==
    SummaryBuilt =>
        /\ \A i \in 1..Len(arg.cert_data_list) :
               LET c == arg.cert_data_list[i] IN
               Mentioned(ret.summary, c)
                   <=> (0 <= c.days_left /\ c.days_left <= arg.user_threshold)
        /\ \A j \in 1..Len(ret.summary) :
               ret.summary[j].kind = "cert" =>
                   \E i \in 1..Len(arg.cert_data_list) :
                       /\ Mentioned(<<ret.summary[j]>>, arg.cert_data_list[i])
                       /\ 0 <= arg.cert_data_list[i].days_left
                       /\ arg.cert_data_list[i].days_left <= arg.user_threshold

\* a summary made of an expired, an expiring and a valid certificate
C2_Witness ==
    /\ SummaryBuilt
    /\ \E i, j, k \in 1..Len(arg.cert_data_list) :
           /\ arg.cert_data_list[i].days_left < 0
           /\ arg.cert_data_list[j].days_left \in 0..arg.user_threshold
           /\ arg.cert_data_list[k].days_left > arg.user_threshold
           /\ Mentioned(ret.summary, arg.cert_data_list[j])

\* C3: a dict with 0 days remaining, and one with exactly threshold days
\* remaining, has the warning fill in the report and a line in the summary.
C3_BoundariesInclusive ==
    SummaryBuilt =>
        \A i \in 1..Len(arg.cert_data_list) :
            LET c == arg.cert_data_list[i] IN
            c.days_left \in {0, arg.user_threshold} =>
                /\ \E k \in 1..Len(ret.rows) : ret.rows[k].cert = c
                /\ \A k \in 1..Len(ret.rows) :
                       ret.rows[k].cert = c => ret.rows[k].fill = ORANGE_FILL
                /\ Mentioned(ret.summary, c)

\* a report and a summary of a list with both boundary cases
C3_Witness ==
    /\ SummaryBuilt
    /\ \E i, j \in 1..Len(arg.cert_data_list) :
           /\ arg.cert_data_list[i].days_left = 0
           /\ arg.cert_data_list[j].days_left = arg.user_threshold
    /\ Len(ret.rows) >= 2
    /\ Len(ret.summary) >= 3

\* C4: the report has one row per dict of the list, the rows are in ascending
\* valid_until order, and the dicts with the same valid_until are in the rows
\* in the order they have in the list (so none is dropped or duplicated).
C4_OneRowEachSortedStable ==
    ReportBuilt =>
        /\ Len(ret.rows) = Len(arg.cert_data_list)
        /\ \A i \in 1..(Len(ret.rows) - 1) :
               ret.rows[i].cert.valid_until <= ret.rows[i + 1].cert.valid_until
        /\ \A d \in Days :
               SelectSeq(RowCerts(ret.rows), LAMBDA c : c.valid_until = d)
                   = SelectSeq(arg.cert_data_list, LAMBDA c : c.valid_until = d)

\* a report of a list that is not in order and has two different dicts with
\* the same valid_until
C4_Witness ==
    /\ ReportBuilt
    /\ Len(arg.cert_data_list) = 3
    /\ arg.cert_data_list[1].valid_until = arg.cert_data_list[2].valid_until
    /\ arg.cert_data_list[1] # arg.cert_data_list[2]
    /\ arg.cert_data_list[3].valid_until < arg.cert_data_list[1].valid_until
    /\ RowCerts(ret.rows) # arg.cert_data_list

-----------------------------------------------------------------------------
(* Claims about the extractor, checked under ExtractSpec.                  *)

Extracted == ret.fn = "get_certificate_info"

\* one of the decodings that were tried succeeded: PEM, or DER after PEM was
\* rejected as malformed (ValueError)
Decoded(c) == c.pem = "ok" \/ (c.pem = "ValueError" /\ c.der = "ok")

\* the loaders were called in the order the claim states: PEM first, DER
\* only after PEM raised ValueError
PemFirstDerOnMalformed ==
    /\ ret.result.calls[1] = "pem"
    /\ (\E i \in 1..Len(ret.result.calls) : ret.result.calls[i] = "der")
           <=> (arg.cert_bytes.pem = "ValueError")
    /\ Len(ret.result.calls) <= 2

\* C8 as stated: PEM is tried first and DER only when PEM was rejected as
\* malformed; a record is returned when either decoding succeeds and None
\* otherwise; nothing is raised.
C8_Original ==
    Extracted =>
        /\ PemFirstDerOnMalformed
        /\ (~ret.result.is_none) <=> Decoded(arg.cert_bytes)
        /\ ret.result.raised = "none"

\* C8 amended: PEM is tried first and DER only when PEM was rejected as
\* malformed; a record is returned when either decoding succeeds and the
\* subject of the certificate can be read, and None otherwise (also when a
\* decoding succeeded and reading the subject fails); nothing is raised.
C8_DecodeOrderAndNone ==
    Extracted =>
        /\ PemFirstDerOnMalformed
        /\ (~ret.result.is_none)
               <=> (Decoded(arg.cert_bytes) /\ arg.cert_bytes.subject_ok)
        /\ ret.result.raised = "none"

\* bytes that PEM rejects as malformed and DER decodes give a record, after
\* both loaders were called
C8_Witness ==
    /\ Extracted
    /\ arg.cert_bytes.pem = "ValueError"
    /\ arg.cert_bytes.der = "ok"
    /\ ret.result.calls = <<"pem", "der">>
    /\ ~ret.result.is_none

\* f"{serial_number:X}" of the two serial numbers of CertReadings
ExpectedSerial(sn) == IF sn = 255 THEN <<"F", "F">> ELSE <<"A">>

\* C9: a certificate without common name or without organization still gives
\* a record, in which the missing field is the placeholder and the other
\* fields are those of the certificate; every record returned has the six
\* fields.
C9_PlaceholderAndSixFields ==
    Extracted =>
        LET c == arg.cert_bytes IN
        /\ (Decoded(c) /\ c.subject_ok) => ~ret.result.is_none
        /\ ~ret.result.is_none =>
               LET info == ret.result.info IN
               /\ DOMAIN info = CertInfoKeys
               /\ info.fio = (IF c.cn = <<>> THEN UNKNOWN ELSE c.cn[1])
               /\ info.org = (IF c.org = <<>> THEN UNKNOWN ELSE c.org[1])
               /\ info.serial = ExpectedSerial(c.serial_number)
               /\ info.valid_from = c.not_valid_before.day
               /\ info.valid_until = c.not_valid_after.day
               /\ info.days_left = c.not_valid_after.day - today

\* a certificate with an organization and no common name gave a record with
\* the placeholder as name
C9_Witness ==
    /\ Extracted
    /\ arg.cert_bytes.cn = <<>>
    /\ arg.cert_bytes.org = <<"OrgX">>
    /\ ~ret.result.is_none
    /\ ret.result.info.fio = UNKNOWN
    /\ ret.result.info.org = "OrgX"

-----------------------------------------------------------------------------
(* Claims about archives, checked under ArchiveSpec.                       *)

ArchiveProcessed == ret.fn = "_process_file_content"

\* the member has one of the recognized certificate suffixes
Recognized(member) == member.name \in CertNames

\* the member can be read and its bytes give a record
ExtractsWell(member) ==
    /\ member.entry = "ok"
    /\ Decoded(member.bytes)
    /\ member.bytes.subject_ok

RECURSIVE RecordsOfGoodMembers(_, _)
\* the records of the recognized members that extract well, in archive order
RecordsOfGoodMembers(members, now) ==
    IF members = <<>> THEN <<>>
    ELSE (IF Recognized(Head(members)) /\ ExtractsWell(Head(members))
          THEN <<get_certificate_info(Head(members).bytes, now).info>>
          ELSE <<>>)
         \o RecordsOfGoodMembers(Tail(members), now)

\* C5: for an archive that opens, the records returned are exactly those of
\* the recognized members that extract successfully, in archive order,
\* however the other members fail, and nothing is raised.
C5_FailedMemberSkipped ==
    (ArchiveProcessed /\ arg.file_bytes.zip.opens) =>
        /\ ret.result.raised = "none"
        /\ ret.result.records
               = RecordsOfGoodMembers(arg.file_bytes.zip.members, today)

\* the indices of the recognized members whose entry can be read, in archive
\* order
RecognizedIndices(members) ==
    SelectSeq([i \in 1..Len(members) |-> i],
              LAMBDA i : Recognized(members[i]) /\ members[i].entry = "ok")

\* C10: for an archive that opens, the members handed to the extractor are
\* exactly the members with a recognized suffix (in any letter case) whose
\* bytes can be read, and no other member contributes a record.
C10_ExactlyRecognizedMembersPassed ==
    (ArchiveProcessed /\ arg.file_bytes.zip.opens) =>
        /\ ret.result.passed = RecognizedIndices(arg.file_bytes.zip.members)
        /\ Len(ret.result.records) <= Len(ret.result.passed)

-----------------------------------------------------------------------------
(* Claims about a batch of uploads, checked under Spec.                     *)

\* a handler ran the pipeline over the uploads of the conversation
BatchProcessed == out.pipeline_ran

\* a .zip-named upload whose container cannot be opened
UnopenedContainer(file) ==
    /\ file.name \in {NameXZip, NameYZip}
    /\ ~file.bytes.zip.opens

\* the records of the parts of one upload that succeed: of an archive that
\* opens, those of its good members; of a certificate file, its record
RecordsOfGoodParts(file, now) ==
    IF file.name \in {NameXZip, NameYZip}
    THEN IF file.bytes.zip.opens
         THEN RecordsOfGoodMembers(file.bytes.zip.members, now)
         ELSE <<>>
    ELSE IF file.name \in CertNames
              /\ Decoded(file.bytes.cert) /\ file.bytes.cert.subject_ok
    THEN <<get_certificate_info(file.bytes.cert, now).info>>
    ELSE <<>>

RECURSIVE RecordsOfGoodBatch(_, _)
RecordsOfGoodBatch(files, now) ==
    IF files = <<>> THEN <<>>
    ELSE RecordsOfGoodParts(Head(files), now) \o RecordsOfGoodBatch(Tail(files), now)

\* C6: whatever uploads or archive members fail, the pipeline goes through
\* the whole batch, collects the records of the parts that succeeded, and no
\* exception leaves it to the handler.
C6_NoFailureEscapes ==
    BatchProcessed =>
        /\ out.raised = "none"
        /\ out.processed = Len(out.batch)
        /\ out.collected = RecordsOfGoodBatch(out.batch, today)

RECURSIVE YieldOfOthers(_, _)
\* what the uploads other than the unopened containers yield, each by itself
YieldOfOthers(files, now) ==
    IF files = <<>> THEN <<>>
    ELSE (IF UnopenedContainer(Head(files)) THEN <<>>
          ELSE _process_file_content(Head(files).bytes, Head(files).name, now).records)
         \o YieldOfOthers(Tail(files), now)

\* C7: in a batch with a .zip-named upload whose container cannot be opened,
\* nothing is raised, that upload gives no record, and every other upload of
\* the batch is processed and contributes its records.
C7_UnopenedContainerYieldsNothing ==
    (BatchProcessed /\ \E i \in 1..Len(out.batch) : UnopenedContainer(out.batch[i])) =>
        /\ out.raised = "none"
        /\ out.processed = Len(out.batch)
        /\ out.collected = YieldOfOthers(out.batch, today)

\* what holds of an unopened container whatever the other uploads do: it is
\* never the upload at which the loop over the batch stops, and it adds
\* nothing to the records collected up to there
UnopenedContainerNeverStopsBatch ==
    BatchProcessed =>
        /\ out.processed < Len(out.batch)
               => ~UnopenedContainer(out.batch[out.processed + 1])
        /\ out.collected = YieldOfOthers(SubSeq(out.batch, 1, out.processed), today)

-----------------------------------------------------------------------------
(* Claims about the dispatch on the file name, checked under DispatchSpec. *)

\* what a certificate file gives by itself: its record, or nothing
RecordOfCertificate(cert_bytes, now) ==
    IF Decoded(cert_bytes) /\ cert_bytes.subject_ok
    THEN <<get_certificate_info(cert_bytes, now).info>>
    ELSE <<>>

\* C11: the input is treated as an archive iff its name ends in .zip in any
\* letter case; otherwise as a certificate iff its name ends in a recognized
\* suffix, and then the result is what the extractor gives on its bytes;
\* under any other name the bytes are not parsed, no record is returned and
\* nothing is raised.
C11_DispatchOnName ==
    ArchiveProcessed =>
        /\ ret.result.branch = "zip" <=> arg.file_name \in ZipNames
        /\ ret.result.branch = "certificate" <=> arg.file_name \in DirectCertNames
        /\ arg.file_name \in DirectCertNames =>
               /\ ret.result.records = RecordOfCertificate(arg.file_bytes.cert, today)
               /\ ret.result.raised = "none"
        /\ arg.file_name \in IgnoredNames =>
               /\ ret.result.branch = "none"
               /\ ~ret.result.parsed
               /\ ret.result.records = <<>>
               /\ ret.result.raised = "none"

\* bytes that are a certificate and an upper-case certificate name gave the
\* record; the same bytes under a name without suffix gave nothing
C11_Witness ==
    /\ ArchiveProcessed
    /\ arg.file_name = NameBCrt
    /\ arg.file_bytes.cert = DerCert(1)
    /\ Len(ret.result.records) = 1
    /\ ret.result.branch = "certificate"
    /\ _process_file_content(arg.file_bytes, NameZip, today).records = <<>>

-----------------------------------------------------------------------------
(* Claims about the collection of a batch, checked under Spec.             *)

RECURSIVE ConcatYields(_, _)
\* the records each file yields by itself, one file after the other
ConcatYields(files, now) ==
    IF files = <<>> THEN <<>>
    ELSE _process_file_content(Head(files).bytes, Head(files).name, now).records
         \o ConcatYields(Tail(files), now)

\* the uploads kept for a user change only by one more upload at the end, or
\* by being emptied
UploadsOnlyAppended ==
    \A u \in Users :
        \/ user_data'[u].files = user_data[u].files
        \/ user_data'[u].files = <<>>
        \/ \E f \in UploadedFiles :
               user_data'[u].files = Append(user_data[u].files, f)

\* C12: the files of a batch are the uploads in upload order, and the record
\* list of the batch is the concatenation, in that order, of the records
\* each file yields, in the order the file yields them: none dropped, none
\* added, none moved.
C12_BatchIsConcatenation ==
    /\ [](BatchProcessed =>
            /\ out.collected
                   = ConcatYields(SubSeq(out.batch, 1, out.processed), today)
            /\ out.raised = "none" => out.processed = Len(out.batch))
    /\ [][UploadsOnlyAppended]_vars
    /\ [][\A u \in Users :
             (out'.pipeline_ran /\ out'.user = u /\ out' # out)
                 => out'.batch = user_data[u].files]_vars

\* an archive giving two records and a certificate file uploaded after it:
\* three records, the certificate's last
C12_Witness ==
    /\ BatchProcessed
    /\ out.raised = "none"
    /\ Len(out.batch) = 2
    /\ out.batch[1].bytes.zip = SampleArchive
    /\ out.batch[1].name = NameYZip
    /\ out.batch[2].name = NameBCrt
    /\ Len(out.collected) = 3
    /\ out.collected[3].fio = "Petrov"
    /\ out.collected[3].org = UNKNOWN
    /\ out.collected[1].fio = "Ivanov"

\* every file of the batch was processed and none gave a record
EmptyBatch(o) ==
    /\ o.pipeline_ran
    /\ o.processed = Len(o.batch)
    /\ o.collected = <<>>

\* the handler raised nothing, sent no summary and no spreadsheet, and its
\* last message is the 'nothing found' text
NothingFoundReported(o) ==
    /\ o.raised = "none"
    /\ \A j \in 1..Len(o.sent) : o.sent[j].kind \notin {"summary", "document"}
    /\ o.sent # <<>>
    /\ o.sent[Len(o.sent)] = TextMessage("nothing found")

WorkerEmptyDocumentNothingFound ==
    EmptyBatch(w_out) => NothingFoundReported(w_out)

-----------------------------------------------------------------------------
(* Claims about thresholds.                                                *)

\* the texts of ThresholdTexts that are a positive integer
PositiveTexts ==
    {<<Digit(n)>> : n \in 1..MaxThreshold} \cup {<<" ", "2", " ">>, <<"+", "1">>}

\* a threshold, if there is one, is a positive integer
PositiveIfAny(opt) == \A n \in opt : n \in Nat /\ n > 0

\* C14: the thresholds in the session caches and in the table are positive
\* integers, and so is the threshold every run of the pipeline gets; a text
\* that is not a positive integer changes neither cache nor table, leaves
\* the conversation waiting for a threshold and runs no pipeline.
C14_ThresholdPositive ==
    /\ [](/\ \A u \in Users : /\ PositiveIfAny(user_data[u].threshold)
                              /\ PositiveIfAny(user_settings[u])
          /\ out.pipeline_ran => (out.threshold # None /\ PositiveIfAny(out.threshold)))
    /\ [][\A u \in Users, db \in DbAnswers :
            \A text \in ThresholdTexts \ PositiveTexts :
                set_new_threshold_and_process(u, text, db)
                    => /\ UNCHANGED <<user_data, user_settings, conv>>
                       /\ ~out'.pipeline_ran
                       /\ out'.raised = "none"]_vars

\* a user typed a text that was turned down and is still asked for the
\* threshold, after an earlier analysis stored one
C14_Witness ==
    \E u \in Users :
        /\ out.handler = "set_new_threshold_and_process"
        /\ out.user = u
        /\ out.sent = <<TextMessage("enter a positive number")>>
        /\ conv[u] = "CERT_TYPING_THRESHOLD"
        /\ user_settings[u] = Some(MaxThreshold)

\* the same in worker.py, for set_days and handle_document (checked under
\* WorkerSpec)
WorkerThresholdPositive ==
    /\ [](/\ PositiveIfAny(w_user_data.threshold)
          /\ \A u \in Users : PositiveIfAny(user_settings[u])
          /\ w_out.pipeline_ran
                 => (w_out.threshold # None /\ PositiveIfAny(w_out.threshold)))
    /\ [][\A u \in ALLOWED_USER_IDS, db \in DbAnswers :
            \A text \in ThresholdTexts \ PositiveTexts :
                set_days(u, text, db)
                    => UNCHANGED <<w_user_data, user_settings, w_conv>>]_vars

ThresholdReturned == ret.fn = "get_user_threshold" /\ ret.result.exc = "none"

\* C15: get_user_threshold, when it returns, returns the cached threshold if
\* there is one, else the threshold stored for the user, which is cached
\* from then on, else the default 30, and then the cache stays empty; so a
\* user who has a stored threshold never gets the default in its place.
C15_CachedElseStoredElseDefault ==
    ThresholdReturned =>
        LET cached == arg.cached
            stored == user_settings[arg.user_id]
        IN  IF cached # None
            THEN /\ ret.result.value = TheValue(cached)
                 /\ ret.result.cached = cached
            ELSE IF stored # None
            THEN /\ ret.result.value = TheValue(stored)
                 /\ ret.result.cached = stored
            ELSE /\ ret.result.value = EXPIRATION_THRESHOLD_DAYS
                 /\ ret.result.cached = None

TooBig(file) == file.size > MAX_FILE_SIZE

\* C16: no file above MAX_FILE_SIZE is ever stored in a session or handed to
\* the pipeline, by the wizard of bot.py or by the document handler of
\* worker.py.
C16_NoFileAboveMaximum ==
    /\ \A u \in Users : \A i \in 1..Len(user_data[u].files) :
           ~TooBig(user_data[u].files[i])
    /\ \A i \in 1..Len(out.batch) : ~TooBig(out.batch[i])
    /\ \A i \in 1..Len(w_out.batch) : ~TooBig(w_out.batch[i])

\* worker.py alone: handle_document answers a file above MAX_FILE_SIZE with
\* a refusal and hands nothing to the pipeline
WorkerRefusesFileAboveMaximum ==
    /\ \A i \in 1..Len(w_out.batch) : ~TooBig(w_out.batch[i])
    /\ w_out.handler = "handle_document" /\ w_out.batch = <<>> =>
           /\ ~w_out.pipeline_ran
           /\ w_out.sent \in {<<>>, <<TextMessage("file too big")>>}

WorkerRefusedFile ==
    w_out.handler = "handle_document" /\ w_out.sent = <<TextMessage("file too big")>>

AdminInTable ==
    /\ user_permissions_table[ADMIN_USER_ID] # {}
    /\ \A perms_str \in user_permissions_table[ADMIN_USER_ID] :
           "admin" \in SplitPerms(perms_str)

AdminInCache ==
    /\ ADMIN_USER_ID \in DOMAIN permissions
    /\ "admin" \in permissions[ADMIN_USER_ID]

\* C17: after any sequence of access-management operations the main
\* administrator has a row in user_permissions and an entry in the
\* permissions cache, each with 'admin' among its permissions.
C17_AdminAlwaysAdmin == AdminInTable /\ AdminInCache

\* the dicts of the list handed to the renderer whose days remaining are
\* between 0 and the threshold, in list order
NeedAttention ==
    SelectSeq(arg.cert_data_list,
              LAMBDA c : 0 <= c.days_left /\ c.days_left <= arg.user_threshold)

\* C18 as stated: with k >= 1 dicts expiring soon the summary has exactly k
\* lines, the j-th being the line of the j-th such dict.
C18_ExactlyKLines ==
    SummaryBuilt /\ NeedAttention # <<>> =>
        /\ Len(ret.summary) = Len(NeedAttention)
        /\ \A j \in 1..Len(ret.summary) : ret.summary[j] = SummaryLine(NeedAttention[j])

\* C18: with k >= 1 dicts expiring soon the summary is a heading line that
\* names the threshold, followed by exactly k lines, the j-th being the line
\* of the j-th such dict; a single expiring certificate gives two lines.
C18_HeadingThenKLines ==
    SummaryBuilt /\ NeedAttention # <<>> =>
        /\ Len(ret.summary) = Len(NeedAttention) + 1
        /\ ret.summary[1] = HeaderLine(arg.user_threshold)
        /\ \A j \in 1..Len(NeedAttention) :
               ret.summary[j + 1] = SummaryLine(NeedAttention[j])

\* a summary of a list with a single certificate, which expires within the
\* threshold, and one of a list with two of them among others
C18_Witness ==
    /\ SummaryBuilt
    /\ \/ Len(arg.cert_data_list) = 1 /\ Len(NeedAttention) = 1
       \/ Len(arg.cert_data_list) = 3 /\ Len(NeedAttention) = 2

\* C19: when no dict of the list expires soon (the list is empty, or holds
\* only expired and valid ones) the summary is the all-clear sentence alone.
C19_AllClearWhenNoneExpiring ==
    SummaryBuilt /\ NeedAttention = <<>> => ret.summary = <<AllClearLine>>

\* the summary of a list of an expired and a valid certificate
C19_Witness ==
    /\ SummaryBuilt
    /\ NeedAttention = <<>>
    /\ \E i, j \in 1..Len(arg.cert_data_list) :
           /\ arg.cert_data_list[i].days_left < 0
           /\ arg.cert_data_list[j].days_left > arg.user_threshold
    /\ ret.summary = <<AllClearLine>>

\* a handler of user u has, in this step, processed a batch to its end
FinishesAnalysis(u) ==
    /\ conv[u] # "END"
    /\ out'.user = u
    /\ out'.pipeline_ran
    /\ out'.raised = "none"

\* C20: a report is computed from the files uploaded since the wizard was
\* last started and from nothing else: outside an analysis no file list is
\* stored; starting the wizard gives an empty list, which from then on only
\* grows by the uploads; the batch processed is that list, and when the
\* processing finishes, with or without records, the list is removed and the
\* conversation ends.
C20_NoCarryOver ==
    /\ [](\A u \in Users :
            conv[u] = "END" => /\ user_data[u].files = <<>>
                               /\ ~user_data[u].has_cert_analysis_data)
    /\ [][\A u \in Users :
            conv[u] = "END" /\ conv'[u] # "END"
                => /\ user_data'[u].files = <<>>
                   /\ user_data'[u].has_cert_analysis_data]_vars
    /\ [][\A u \in Users :
            conv[u] # "END" /\ conv'[u] # "END"
                => \/ user_data'[u].files = user_data[u].files
                   \/ \E f \in UploadedFiles :
                          /\ out'.handler = "handle_cert_upload"
                          /\ user_data'[u].files = Append(user_data[u].files, f)]_vars
    /\ [][\A u \in Users :
            FinishesAnalysis(u)
                => /\ out'.batch = user_data[u].files
                   /\ user_data'[u].files = <<>>
                   /\ ~user_data'[u].has_cert_analysis_data
                   /\ conv'[u] = "END"]_vars

\* an analysis of two uploads has finished with a report, and the user's
\* file list is gone
C20_Witness ==
    /\ out.pipeline_ran
    /\ out.raised = "none"
    /\ Len(out.batch) = 2
    /\ out.collected # <<>>
    /\ conv[out.user] = "END"
    /\ user_data[out.user].files = <<>>
    /\ ~user_data[out.user].has_cert_analysis_data

\* an invocation of the extractor under ClockSpec gave a record
ClockRecord(r) == ~r.result.is_none /\ r.result.raised = "none"

\* C21: the days remaining of a record are its valid-until date minus the
\* date of the invocation that extracted it, whenever the file was
\* uploaded; extracting the same certificate again n days later gives n
\* days less, so a different value.
C21_DaysFromCurrentDate ==
    ret.fn = "get_certificate_info" /\ ClockRecord(ret) =>
        /\ ret.result.info.days_left
               = date(arg.cert_bytes.not_valid_after) - ret.at
        /\ \A e \in ret.earlier :
               /\ ClockRecord(e)
               /\ ret.result.info.days_left
                      = e.result.info.days_left - (ret.at - e.at)
               /\ ret.result.info.days_left # e.result.info.days_left

\* a certificate extracted on the day of its upload and again two days
\* later, the second time expired
C21_Witness ==
    /\ ret.fn = "get_certificate_info"
    /\ ClockRecord(ret)
    /\ ret.at = arg.uploaded + 2
    /\ ret.result.info.days_left < 0
    /\ \E e \in ret.earlier : e.result.info.days_left >= 0

\* the task of an invocation that ran alone from start to end
RECURSIVE RunAlone(_, _)
RunAlone(task, now) ==
    IF task.pc \in {"done", "raised"} THEN task ELSE RunAlone(TaskStep(task, now), now)

\* C22: however the steps of two invocations interleave, an invocation that
\* ends has the records, the rows with their fills in their order, and the
\* summary it has when it runs alone; at every moment its input list is the
\* one it was given, and its record list after rendering is the list
\* collected from its own files, in collection order.
C22_InvocationsIndependent ==
    ret.fn = "pipeline" =>
        \A k \in 1..2 :
            LET t == ret.task[k] IN
            /\ t.files = arg.files[k]
            /\ t.all_certs_data
                   = ConcatYields(SubSeq(arg.files[k], 1, t.i - 1), today)
            /\ t.pc \in {"done", "raised"}
                   => t = RunAlone(NewTask(arg.files[k], arg.threshold[k]), today)
            /\ t.pc = "done"
                   => t.rows = create_excel_report(
                                   ConcatYields(arg.files[k], today), arg.threshold[k])

\* both invocations have ended with rows, the first one started before and
\* ended after a record list of the second that the renderer had to reorder
C22_Witness ==
    /\ ret.fn = "pipeline"
    /\ ret.task[1].pc = "done" /\ ret.task[2].pc = "done"
    /\ Len(ret.task[1].rows) >= 2
    /\ Len(ret.task[2].rows) = 3
    /\ ret.task[2].all_certs_data # sorted_by_valid_until(ret.task[2].all_certs_data)

\* the fills of the rows of a report, in row order
Buckets(rows) == [i \in 1..Len(rows) |-> rows[i].fill]

\* C23: two runs of the pipeline on the same files with the same threshold
\* on the same date, at whatever times of that day, end alike and give the
\* same records, the same fills and the same rows in the same order.
C23_SameInputsSameReport ==
    ret.fn = "pipeline_twice" =>
        \A i, j \in 1..Len(ret.runs) :
            ret.runs[i].at.day = ret.runs[j].at.day =>
                /\ ret.runs[i].raised = ret.runs[j].raised
                /\ ret.runs[i].records = ret.runs[j].records
                /\ Buckets(ret.runs[i].rows) = Buckets(ret.runs[j].rows)
                /\ ret.runs[i].rows = ret.runs[j].rows

\* two runs on the same day, in the morning and in the evening, of files
\* that give three rows of two fills
C23_Witness ==
    /\ ret.fn = "pipeline_twice"
    /\ Len(ret.runs) = 2
    /\ ret.runs[1].at.day = ret.runs[2].at.day
    /\ ret.runs[1].at.tod # ret.runs[2].at.tod
    /\ Len(ret.runs[2].rows) = 3
    /\ Cardinality({ret.runs[2].rows[i].fill : i \in 1..3}) = 2

\* a text read as day.month.year, the way datetime.strptime(text, "%d.%m.%Y")
\* reads it: three runs of digits between two dots, which name a date of
\* the calendar
ParseDayMonthYear(text) ==
    LET dots == {i \in 1..Len(text) : text[i] = "."} IN
    IF Cardinality(dots) # 2 THEN [exc |-> "ValueError", value |-> EpochDate]
    ELSE LET p == CHOOSE i \in dots : \A j \in dots : i <= j
             q == CHOOSE i \in dots : \A j \in dots : j <= i
             dd == SubSeq(text, 1, p - 1)
             mm == SubSeq(text, p + 1, q - 1)
             yy == SubSeq(text, q + 1, Len(text))
             digits(t) == t # <<>> /\ \A i \in 1..Len(t) : IsDigit(t[i])
         IN  IF ~(digits(dd) /\ digits(mm) /\ digits(yy))
             THEN [exc |-> "ValueError", value |-> EpochDate]
             ELSE LET dt == [y |-> DigitsValue(yy), m |-> DigitsValue(mm),
                             d |-> DigitsValue(dd)]
                  IN  IF dt.m \in 1..12 /\ dt.d \in 1..DaysInMonth(dt.y, dt.m)
                      THEN [exc |-> "none", value |-> dt]
                      ELSE [exc |-> "ValueError", value |-> EpochDate]

\* C24: in every row of the report the fourth and the fifth cell, read back
\* as day.month.year, are the valid-from and the valid-until date of the
\* dict the row was built from.
C24_DatesRoundTrip ==
    ReportBuilt =>
        \A i \in 1..Len(ret.rows) :
            LET from == ParseDayMonthYear(ret.rows[i].cells[4])
                until == ParseDayMonthYear(ret.rows[i].cells[5])
            IN  /\ from.exc = "none"
                /\ from.value = CalendarDate(ret.rows[i].cert.valid_from)
                /\ until.exc = "none"
                /\ until.value = CalendarDate(ret.rows[i].cert.valid_until)

\* a report with a row of a certificate valid until 29 February and a row of
\* one valid until 1 March
C24_Witness ==
    /\ ReportBuilt
    /\ \E i, j \in 1..Len(ret.rows) :
           /\ ret.rows[i].cells[5] = <<"2", "9", ".", "0", "2", ".", "2", "0", "2", "4">>
           /\ ret.rows[j].cells[5] = <<"0", "1", ".", "0", "3", ".", "2", "0", "2", "4">>

\* the feature each entry handler asks has_permission for
FeatureOf(handler) ==
    CASE handler = "cert_analysis_start" -> "cert_analysis"
      [] handler = "akc_start" -> "akc_form"
      [] handler = "youtube_entry" -> "youtube"
      [] handler = "access_management_start" -> "admin"

EntryHandlers ==
    {"cert_analysis_start", "akc_start", "youtube_entry", "access_management_start"}

\* the state of user u's conversation that the entry handler belongs to
ConvOf(handler, u) ==
    CASE handler = "cert_analysis_start" -> conv[u]
      [] handler = "akc_start" -> akc_conv[u]
      [] handler = "youtube_entry" -> youtube_conv[u]
      [] handler = "access_management_start" -> access_conv[u]

\* user u holds the feature or 'admin' in the cache
Holds(u, feature) ==
    /\ u \in DOMAIN permissions
    /\ permissions[u] \cap {feature, "admin"} # {}

\* C25: a step of an entry handler for a user who holds neither the
\* feature nor 'admin' in the cache (a user absent from it included) sends
\* nothing and changes no variable but the record of the last handler; a
\* conversation leaves END only by its entry handler for a user who holds
\* the feature or 'admin', and for such a user the handler that returns
\* starts it.
C25_EntryOnlyWithPermission ==
    [][\A h \in EntryHandlers : \A u \in Users :
          /\ (out'.handler = h /\ out'.user = u /\ ~Holds(u, FeatureOf(h)))
                 => /\ out'.sent = <<>> /\ out'.raised = "none"
                    /\ UNCHANGED <<permissions, user_settings, user_data, conv,
                                   accessVars, menuVars, workerVars>>
          /\ (ConvOf(h, u) = "END" /\ ConvOf(h, u)' # "END")
                 => /\ out'.handler = h /\ out'.user = u
                    /\ Holds(u, FeatureOf(h))
          /\ (out'.handler = h /\ out'.user = u /\ Holds(u, FeatureOf(h))
                 /\ out'.raised = "none" /\ ConvOf(h, u) = "END")
                 => ConvOf(h, u)' # "END"]_vars

\* a user who holds only 'admin' is in the AKC conversation, and the last
\* handler was the entry of the certificate wizard refusing a user who
\* holds only 'youtube'
C25_Witness ==
    /\ permissions = (ADMIN_USER_ID :> {"admin"}) @@ (OtherUser :> {"youtube"})
    /\ akc_conv[ADMIN_USER_ID] # "END"
    /\ out.handler = "cert_analysis_start"
    /\ out.user = OtherUser
    /\ out.sent = <<>>
    /\ conv[OtherUser] = "END"

\* the handler sent a spreadsheet
ReportSent(o) == \E i \in 1..Len(o.sent) : o.sent[i].kind = "document"

\* C26: a step that sends a report is taken for a user who holds
\* 'cert_analysis' or 'admin' in the cache at that moment, and a step of
\* save_new_user or delete_user that changes the table or the cache is
\* taken for a user who holds 'admin' at that moment.
C26_OnlyWithPermissionAtThatMoment ==
    [][/\ ReportSent(out') => Holds(out'.user, "cert_analysis")
       /\ (out'.handler \in {"save_new_user", "delete_user"}
             /\ <<permissions, user_permissions_table>>'
                    # <<permissions, user_permissions_table>>)
              => Holds(out'.user, "admin")]_vars

\* C27: whenever a conversation of a user is past its entry point, the
\* session data its handlers read is there: cert_analysis_data in the
\* certificate wizard, akc_form in the AKC form, new_user_id, new_user_name
\* and new_user_perms during permission selection; and no handler fails on
\* a missing key.
C27_SessionDataPresent ==
    /\ \A u \in Users :
           /\ conv[u] # "END" => user_data[u].has_cert_analysis_data
           /\ akc_conv[u] # "END" => user_data[u].has_akc_form
           /\ access_conv[u] = "AWAITING_PERMISSIONS" => new_user[u].has_new_user
    /\ out.raised # "KeyError"

\* the rows of the table user_permissions, as a cache holds them
TableContents ==
    [u \in {x \in Users : user_permissions_table[x] # {}} |->
        UNION {SplitPerms(perms_str) : perms_str \in user_permissions_table[u]}]

\* the handler told the user what TextMessage(t) stands for
Told(o, t) == \E i \in 1..Len(o.sent) : o.sent[i] = TextMessage(t)

\* C28: after every step of save_new_user that saves and every step of
\* delete_user, whatever the database answers, the cache equals the rows of
\* the table; a user reported as added is in both with exactly the chosen
\* permissions, and a user reported as deleted is in neither.
C28_CacheEqualsTable ==
    [][\A u \in Users :
          /\ (out'.user = u /\ out'.handler = "save_new_user" /\ Told(out', "user added"))
                 => /\ permissions' = TableContents'
                    /\ \A id \in new_user[u].id :
                           /\ id \in DOMAIN permissions'
                           /\ permissions'[id] = new_user[u].perms
          /\ (out'.user = u /\ out'.handler = "delete_user" /\ Told(out', "user deleted"))
                 => /\ permissions' = TableContents'
                    /\ OtherUser \notin DOMAIN permissions']_vars

\* C29: at every moment /start and the help button are answered for a user
\* if and only if the user is in the permissions cache.
C29_AnsweredIffInCache ==
    \A u \in Users :
        /\ (ENABLED start(u)) <=> u \in DOMAIN permissions
        /\ (ENABLED help_command(u)) <=> u \in DOMAIN permissions

\* C30: a threshold held in a user's session cache equals the threshold
\* stored for that user in the database, and the confirmation "threshold
\* changed and saved" is sent only when the new value is stored and cached.
C30_CachedThresholdIsStored ==
    /\ \A u \in Users :
           user_data[u].threshold # None =>
               user_data[u].threshold = user_settings[u]
    /\ \A i \in 1..Len(out.sent) :
           out.sent[i].kind = "threshold saved" =>
               /\ user_settings[out.user] = Some(out.sent[i].threshold)
               /\ user_data[out.user].threshold = Some(out.sent[i].threshold)

\* a text that is not an integer, or an integer that is not positive
InvalidThreshold(text) == int(text).exc = "ValueError" \/ int(text).value <= 0

\* an invalid threshold text leaves the conversation in the typing state and
\* changes neither the stored threshold nor the session data; no report
InvalidThresholdInputChangesNothing ==
    [][\A u \in Users, text \in ThresholdTexts, db \in DbAnswers :
          (set_new_threshold_and_process(u, text, db) /\ InvalidThreshold(text)) =>
              /\ conv'[u] = "CERT_TYPING_THRESHOLD"
              /\ user_settings' = user_settings
              /\ user_data' = user_data
              /\ ~out'.pipeline_ran /\ ~ReportSent(out')]_vars

\* C31: a non-integer or non-positive threshold text leaves the conversation
\* in the typing state with the stored threshold, the cached threshold and
\* the uploaded files unchanged and sends no report; a valid text typed in
\* that state produces the report from the same files.
C31_InvalidInputThenValidReports ==
    [][\A u \in Users, text \in ThresholdTexts, db \in DbAnswers :
          set_new_threshold_and_process(u, text, db) =>
              IF InvalidThreshold(text)
              THEN /\ conv'[u] = "CERT_TYPING_THRESHOLD"
                   /\ user_settings' = user_settings
                   /\ user_data' = user_data
                   /\ ~out'.pipeline_ran /\ ~ReportSent(out')
              ELSE /\ out'.pipeline_ran
                   /\ out'.batch = user_data[u].files
                   /\ out'.raised = "none"]_vars

ThresholdPrompted(o) == \E i \in 1..Len(o.sent) : o.sent[i].kind = "choose threshold"

\* C32: the certificate wizard enters the threshold step and runs the report
\* only with at least one uploaded file; 'Готово' with no uploaded file ends
\* the conversation, removes the analysis data and sends neither a threshold
\* prompt nor a report.
C32_ThresholdStepOnlyWithFiles ==
    [][/\ \A u \in Users :
              (conv[u] = "CERT_AWAIT_FILES" /\ conv'[u] = "CERT_AWAIT_THRESHOLD")
                  => user_data[u].files # <<>>
       /\ (out'.pipeline_ran \/ ReportSent(out')) => out'.batch # <<>>
       /\ \A u \in Users, db \in DbAnswers :
              (ask_for_threshold_confirmation(u, db) /\ user_data[u].files = <<>>) =>
                  /\ conv'[u] = "END"
                  /\ ~user_data'[u].has_cert_analysis_data
                  /\ ~ThresholdPrompted(out') /\ ~ReportSent(out')
                  /\ ~out'.pipeline_ran]_vars

\* 'Готово' was pressed with no uploaded file
C32_Witness ==
    /\ out.handler = "ask_for_threshold_confirmation"
    /\ out.sent = <<TextMessage("no files, cancelled")>>
    /\ conv[out.user] = "END"

AkcLoopStates ==
    {"AKC_ROLE", "AKC_CITP_NAME", "AKC_CONFIRM_LOGINS", "AKC_LOGINS", "AKC_ACTION"}

AkcLoopHandlers ==
    {"akc_get_role", "akc_get_citp_name", "akc_use_saved_logins",
     "akc_get_logins", "akc_get_action"}

\* the fields of a certificate of the form that are set
FieldsSet(cert) == {k \in {"role", "citp_name", "logins", "action"} : cert[k] # ""}

\* the fields of the current certificate that are set when a state is entered
FieldsSetIn(state) ==
    IF state = "AKC_ROLE" THEN {}
    ELSE IF state = "AKC_CITP_NAME" THEN {"role"}
    ELSE IF state \in {"AKC_CONFIRM_LOGINS", "AKC_LOGINS"} THEN {"role", "citp_name"}
    ELSE {"role", "citp_name", "logins"}

ArchiveBuilt(o) == \E i \in 1..Len(o.sent) : o.sent[i].kind = "archive"

\* the certificates are handled one after the other, in upload order: those
\* before cert_index are complete, those after it untouched
AkcLoopInOrder(u) ==
    akc_conv[u] \in AkcLoopStates =>
        /\ user_data[u].cert_index # None
        /\ TheValue(user_data[u].cert_index) \in 0..(Len(user_data[u].certificates) - 1)
        /\ \A j \in 1..Len(user_data[u].certificates) :
               FieldsSet(user_data[u].certificates[j]) =
                   IF j < TheValue(user_data[u].cert_index) + 1
                   THEN {"role", "citp_name", "logins", "action"}
                   ELSE IF j > TheValue(user_data[u].cert_index) + 1 THEN {}
                   ELSE FieldsSetIn(akc_conv[u])

\* C33: after 'Готово' with N >= 1 certificates the role, system, logins and
\* action steps run once per certificate in upload order, cert_index stays
\* within the certificate list, and the archive is built right after the
\* N-th action choice with every certificate complete; with N = 0 the wizard
\* ends and builds nothing.
C33_LoopOncePerCertificate ==
    [][/\ \A u \in Users : AkcLoopInOrder(u)'
       /\ \A u \in Users :
              (out'.handler \in AkcLoopHandlers /\ out'.user = u) =>
                  /\ out'.raised \notin {"KeyError", "IndexError"}
                  /\ akc_conv'[u] # akc_conv[u]
       /\ \A u \in Users :
              (akc_start_data_loop(u) /\ user_data[u].certificates = <<>>) =>
                  /\ akc_conv'[u] = "END"
                  /\ ~ArchiveBuilt(out')
       /\ \A u \in Users, action \in AkcActions :
              akc_get_action(u, action) =>
                  (ArchiveBuilt(out') <=>
                       TheValue(user_data[u].cert_index) + 1
                           = Len(user_data[u].certificates))
       /\ \A i \in 1..Len(out'.sent) :
              out'.sent[i].kind = "archive" =>
                  /\ out'.handler = "akc_get_action"
                  /\ Len(out'.sent[i].rows) >= 1
                  /\ \A j \in 1..Len(out'.sent[i].rows) :
                         FieldsSet(out'.sent[i].rows[j]) =
                             {"role", "citp_name", "logins", "action"}]_vars

\* the place of a state in the chain of its conversation
CertRank(state) ==
    CASE state = "CERT_AWAIT_FILES" -> 1
      [] state = "CERT_AWAIT_THRESHOLD" -> 2
      [] state = "CERT_TYPING_THRESHOLD" -> 3

AkcRank(state) ==
    CASE state = "AKC_CONFIRM_DEFAULTS" -> 1
      [] state = "AKC_SENDER_FIO" -> 2
      [] state = "AKC_ORG_NAME" -> 3
      [] state = "AKC_INN_KPP" -> 4
      [] state = "AKC_MUNICIPALITY" -> 5
      [] state = "AKC_AWAIT_CERTIFICATES" -> 6
      [] state = "AKC_ROLE" -> 7
      [] state = "AKC_CITP_NAME" -> 8
      [] state = "AKC_CONFIRM_LOGINS" -> 9
      [] state = "AKC_LOGINS" -> 10
      [] state = "AKC_ACTION" -> 11

AccessRank(state) ==
    CASE state = "ACCESS_MENU" -> 1
      [] state = "AWAITING_USER_INFO" -> 2
      [] state = "AWAITING_PERMISSIONS" -> 3
      [] state = "AWAITING_USER_TO_DELETE" -> 4

\* a step inside one conversation, from one state to another
Moves(c, u) == c[u] # "END" /\ c'[u] # "END" /\ c'[u] # c[u]

\* the AKC form goes back to the role step for the next certificate
NextCertificate(u) ==
    /\ akc_conv[u] = "AKC_ACTION" /\ akc_conv'[u] = "AKC_ROLE"
    /\ out'.handler = "akc_get_action"
    /\ user_data'[u].cert_index = Some(TheValue(user_data[u].cert_index) + 1)
    /\ TheValue(user_data'[u].cert_index) < Len(user_data'[u].certificates)

\* the access management goes back to its menu
BackToAccessMenu(u) ==
    /\ access_conv[u] \in {"AWAITING_PERMISSIONS", "AWAITING_USER_TO_DELETE"}
    /\ access_conv'[u] = "ACCESS_MENU"
    /\ out'.handler \in {"save_new_user", "delete_user", "return_to_access_menu"}

\* C34 (as stated): every wizard conversation is a linear chain of states
\* without cycles; no state is entered again after it has been left.
C34_LinearChainNoCycles ==
    [][\A u \in Users :
          /\ Moves(conv, u) => CertRank(conv'[u]) > CertRank(conv[u])
          /\ Moves(akc_conv, u) => AkcRank(akc_conv'[u]) > AkcRank(akc_conv[u])
          /\ Moves(access_conv, u) =>
                 AccessRank(access_conv'[u]) > AccessRank(access_conv[u])]_vars

\* C34 (amended): the certificate wizard is a linear chain; the AKC form is
\* a chain but for the return from the action step to the role step for
\* each further certificate, and the access management a chain but for the
\* return to its menu after saving, deleting or going back.
C34_ChainButForLoopAndMenu ==
    [][\A u \in Users :
          /\ Moves(conv, u) => CertRank(conv'[u]) > CertRank(conv[u])
          /\ Moves(akc_conv, u) =>
                 \/ AkcRank(akc_conv'[u]) > AkcRank(akc_conv[u])
                 \/ NextCertificate(u)
          /\ Moves(access_conv, u) =>
                 \/ AccessRank(access_conv'[u]) > AccessRank(access_conv[u])
                 \/ BackToAccessMenu(u)]_vars

\* the AKC form is back at the role step, for the second certificate
C34_Witness ==
    /\ out.handler = "akc_get_action"
    /\ akc_conv[out.user] = "AKC_ROLE"
    /\ user_data[out.user].cert_index = Some(1)

\* the entry of a user in the cache: the set of permissions, {} without one
EntryOf(cache, user_id) == IF user_id \in DOMAIN cache THEN {cache[user_id]} ELSE {}

\* C35: saving a user with a non-empty selection makes that user's
\* permissions exactly the selection and leaves every other user's entry as
\* it was; a permission button changes the membership of that permission
\* only, and pressing it twice restores the selection.
C35_SaveSetsExactlyTheSelection ==
    [][/\ \A u \in Users, db_save \in DbAnswers, db_load \in DbAnswers :
              (/\ save_new_user(u, db_save, db_load)
               /\ new_user[u].has_new_user
               /\ new_user[u].perms # {}) =>
                  /\ EntryOf(permissions', TheValue(new_user[u].id))
                         = {new_user[u].perms}
                  /\ user_permissions_table'[TheValue(new_user[u].id)]
                         = {PermsStr(new_user[u].perms)}
                  /\ \A other \in Users \ new_user[u].id :
                         /\ EntryOf(permissions', other) = EntryOf(permissions, other)
                         /\ user_permissions_table'[other]
                                = user_permissions_table[other]
       /\ \A u \in Users, perm_key \in AVAILABLE_PERMISSIONS :
              (toggle_permission(u, perm_key) /\ new_user[u].has_new_user) =>
                  /\ (new_user'[u].perms \ new_user[u].perms)
                         \cup (new_user[u].perms \ new_user'[u].perms) = {perm_key}
                  /\ (IF perm_key \in new_user'[u].perms
                      THEN new_user'[u].perms \ {perm_key}
                      ELSE new_user'[u].perms \cup {perm_key}) = new_user[u].perms]_vars

\* C36: Save with no permission selected changes neither the table nor the
\* cache, tells the administrator that the addition was cancelled, and
\* returns the conversation to the access menu.
C36_SaveWithoutSelectionChangesNothing ==
    [][\A u \in Users, db_save \in DbAnswers, db_load \in DbAnswers :
          (save_new_user(u, db_save, db_load) /\ new_user[u].perms = {}) =>
              /\ user_permissions_table' = user_permissions_table
              /\ permissions' = permissions
              /\ \E i \in 1..Len(out'.sent) :
                     out'.sent[i] = TextMessage("no permission chosen")
              /\ access_conv'[u] = "ACCESS_MENU"]_vars

\* Save was pressed with an empty selection
C36_Witness ==
    /\ out.handler = "save_new_user"
    /\ out.sent = <<TextMessage("no permission chosen"), TextMessage("access menu")>>
    /\ access_conv[out.user] = "ACCESS_MENU"

=============================================================================
